---- MODULE Spec2Model ----
(***************************************************************************)
(* Bee Swarm stats backend (src/Index.js, the variant of lines 528-1396,   *)
(* with GET /api/history of the variant of lines 107-526): the time-window *)
(* resolver, the in-memory sample store, the durable (MySQL) sample store  *)
(* and the ingest / stats / history request handlers.                      *)
(*                                                                         *)
(* JavaScript values of a request body are pairs <<kind, n>>:              *)
(*   <<"num", n>>   a finite number n                                      *)
(*   <<"inf", 0>>   a number that is not finite (JSON 1e999 parses to      *)
(*                  Infinity)                                              *)
(*   <<"undef", 0>> an absent field                                        *)
(*   <<"str", 0>>   a value that is not a number                           *)
(* Sample values are integers; a percentage is computed with integer      *)
(* division, and the values used divide exactly.                           *)
(***************************************************************************)
EXTENDS Integers, Sequences, FiniteSets, TLC

VARIABLES
  tsInput,            \* the period handed to toSeconds (resolver harness)
  tsResult,           \* what toSeconds returned for it
  USE_DB,             \* the four MYSQL_* variables are all set
  now,                \* nowSec(): the server's clock, in seconds
  samples,            \* own properties of `samples`: user key -> bucket
  inherited,          \* properties set on an object `samples[key]` inherits
  publicIdToUserKey,  \* public id -> [userKey, username]
  memorySessions,     \* <<user key, player id>> -> session
  dbUsers,            \* table users: user key -> row
  dbSamples,          \* table samples, in insertion (id) order
  dbSessions,         \* table player_sessions: <<user key, player id>> -> row
  handlers,           \* the ingest requests received, by request number
  resp,               \* the response the last step sent (NoResp: none)
  ackLog,             \* the requests answered ok:true, in the order answered
  workload,           \* which clients are talking to the server
  configs,            \* own properties of `configs`: config key -> entry
  dbConfigs,          \* table configs: config key -> row
  configRequests,     \* the config requests that reached the database path
  configAcks,         \* the config POSTs answered ok:true, in the order answered
  controlCommands,    \* own properties of `controlCommands`: user key -> queue
  controlProto,       \* the prototype of `controlCommands`
  commandCount,       \* how many commands were posted so far
  mailLog          \* the commands GET /api/controls/commands handed out

vars == <<tsInput, tsResult, USE_DB, now, samples, inherited, publicIdToUserKey,
          memorySessions, dbUsers, dbSamples, dbSessions, handlers, resp, ackLog,
          workload, configs, dbConfigs, configRequests, configAcks,
          controlCommands, controlProto, commandCount, mailLog>>

storeVars == <<samples, inherited, publicIdToUserKey, memorySessions,
               dbUsers, dbSamples, dbSessions>>

configVars == <<configs, dbConfigs, configRequests, configAcks>>

controlVars == <<controlCommands, controlProto, commandCount, mailLog>>

appVars == <<USE_DB, now, samples, inherited, publicIdToUserKey, memorySessions,
             dbUsers, dbSamples, dbSessions, handlers, resp, ackLog, workload,
             configVars, controlVars>>

\* what no request handler writes
configuration == <<tsInput, tsResult, USE_DB, workload>>

\* what the ingest, stats and history handlers do not write
fixedVars == <<configuration, configVars, controlVars>>

----------------------------------------------------------------------------
(* Bounds *)

MaxPeriodLen == 3     \* longest period string handed to toSeconds
MaxIngests == 2       \* ingest requests per behaviour (all may be in flight)

----------------------------------------------------------------------------
(* JavaScript values *)

Num(n) == <<"num", n>>
Inf == <<"inf", 0>>
Undef == <<"undef", 0>>
NotANumber == <<"str", 0>>

IsNumber(x) == x[1] \in {"num", "inf"}          \* typeof x === "number"
IsFiniteNumber(x) == x[1] = "num"               \* ... && isFinite(x)

Min(a, b) == IF a <= b THEN a ELSE b
Max(a, b) == IF a >= b THEN a ELSE b

NoName == <<>>        \* null username (also an absent, non-string or blank one)
Player == <<"P", "l", "a", "y", "e", "r">>

----------------------------------------------------------------------------
(* Time-Window Resolver: toSeconds.  A period is AbsentPeriod or a         *)
(* sequence of one-character strings.                                      *)

AbsentPeriod == <<"undefined">>

DEFAULT_PERIOD == 86400

Digits == {"0", "1", "2", "3", "4", "5", "6", "7", "8", "9"}
Units == {"s", "m", "h", "d"}

DigitValue(c) ==
  CASE c = "0" -> 0 [] c = "1" -> 1 [] c = "2" -> 2 [] c = "3" -> 3
    [] c = "4" -> 4 [] c = "5" -> 5 [] c = "6" -> 6 [] c = "7" -> 7
    [] c = "8" -> 8 [] c = "9" -> 9

RECURSIVE ToNumber(_)
\* Number(m[1]) for a string of decimal digits
ToNumber(ds) ==
  IF ds = <<>> THEN 0
  ELSE 10 * ToNumber(SubSeq(ds, 1, Len(ds) - 1)) + DigitValue(ds[Len(ds)])

\* /^(\d+)([smhd])$/.exec(period) succeeds
PeriodMatches(p) ==
  /\ Len(p) >= 2
  /\ \A i \in 1 .. Len(p) - 1 : p[i] \in Digits
  /\ p[Len(p)] \in Units

\* the conversion without the Math.min against 30 days
toSecondsNoClamp(period) ==
  IF period = AbsentPeriod \/ period = <<>> THEN DEFAULT_PERIOD
  ELSE IF ~PeriodMatches(period) THEN DEFAULT_PERIOD
  ELSE LET n == ToNumber(SubSeq(period, 1, Len(period) - 1))
           unit == period[Len(period)]
       IN CASE unit = "s" -> n
            [] unit = "m" -> n * 60
            [] unit = "h" -> n * 3600
            [] unit = "d" -> n * 86400

toSeconds(period) ==
  IF period = AbsentPeriod \/ period = <<>> THEN DEFAULT_PERIOD      \* !period
  ELSE IF ~PeriodMatches(period) THEN DEFAULT_PERIOD          \* !m
  ELSE LET n == ToNumber(SubSeq(period, 1, Len(period) - 1))
           unit == period[Len(period)]
       IN CASE unit = "s" -> Min(n, 86400 * 30)
            [] unit = "m" -> Min(n * 60, 86400 * 30)
            [] unit = "h" -> Min(n * 3600, 86400 * 30)
            [] unit = "d" -> Min(n * 86400, 86400 * 30)

----------------------------------------------------------------------------
(* Identities *)

NormalKeys == {"u1", "u2"}
\* A key that names a property every JavaScript object inherits:
\* samples["constructor"] is the function Object, which is truthy.
ProtoKeys == {"constructor"}
UserKeys == NormalKeys \cup ProtoKeys

NECTAR_TYPES == {"Comforting", "Motivating", "Satisfying", "Refreshing", "Invigorating"}
NoNectar == [type \in NECTAR_TYPES |-> Undef]

\* sha1(userKey) cut to 12 hex digits and sha1(userKey:playerId) cut to 16:
\* modelled as distinct for distinct arguments.
getPublicId(userKey) == <<"pid", userKey, 0>>
getSessionPublicId(userKey, playerId) == <<"sid", userKey, playerId>>

\* null (written 0) unless the value is a finite number; 0 and null are both
\* falsy and the callers only test `if (numericPlayerId)`.
normalizePlayerId(value) == IF IsFiniteNumber(value) THEN Max(0, value[2]) ELSE 0

USERNAME_MAX == 32

RECURSIVE TrimLeft(_)
TrimLeft(cs) == IF cs # <<>> /\ Head(cs) = " " THEN TrimLeft(Tail(cs)) ELSE cs

RECURSIVE TrimRight(_)
TrimRight(cs) ==
  IF cs # <<>> /\ cs[Len(cs)] = " " THEN TrimRight(SubSeq(cs, 1, Len(cs) - 1)) ELSE cs

\* name.trim().slice(0, 32) || null, for a username given as a sequence of
\* characters (<<>> when the field is absent or not a string)
sanitizeUsername(name) ==
  LET trimmed == TrimRight(TrimLeft(name))
  IN SubSeq(trimmed, 1, Min(Len(trimmed), USERNAME_MAX))

clampPercent(value) == Max(0, Min(100, value))

----------------------------------------------------------------------------
(* In-memory store.  A memory state m is the record                        *)
(* [samples, inherited, publicIdToUserKey, memorySessions].                *)

Mem == [samples |-> samples, inherited |-> inherited,
        publicIdToUserKey |-> publicIdToUserKey, memorySessions |-> memorySessions]

SetMem(m) ==
  /\ samples' = m.samples
  /\ inherited' = m.inherited
  /\ publicIdToUserKey' = m.publicIdToUserKey
  /\ memorySessions' = m.memorySessions

Put(f, k, v) == [x \in DOMAIN f \cup {k} |-> IF x = k THEN v ELSE f[x]]

cachePublicMapping(m, publicId, userKey, username) ==
  [m EXCEPT !.publicIdToUserKey =
     Put(@, publicId, [userKey |-> userKey, username |-> username])]

EmptyBucket(userKey) ==
  [honey |-> <<>>, pollen |-> <<>>, backpack |-> <<>>,
   nectar |-> [type \in NECTAR_TYPES |-> <<>>],
   currentHoney |-> 0, lastCapacity |-> 0, username |-> NoName,
   publicId |-> getPublicId(userKey), lastSeen |-> 0]

\* samples[userKey] is an object the lookup finds on the prototype chain
IsInherited(userKey) == userKey \in ProtoKeys

\* getBucket: the memory state after the call.  For an inherited object no own
\* bucket is created; the missing nectar and publicId are set on that object.
getBucket(m, userKey) ==
  IF IsInherited(userKey)
  THEN LET m1 == [m EXCEPT !.inherited[userKey].nectar = TRUE,
                           !.inherited[userKey].publicId = TRUE]
       IN cachePublicMapping(m1, getPublicId(userKey), userKey,
                             m1.inherited[userKey].username)
  ELSE LET m1 == IF userKey \in DOMAIN m.samples THEN m
                 ELSE [m EXCEPT !.samples = Put(@, userKey, EmptyBucket(userKey))]
       IN cachePublicMapping(m1, m1.samples[userKey].publicId, userKey,
                             m1.samples[userKey].username)

\* a filter that drops the entry at the cutoff itself: p.t > cutoff
RECURSIVE SelectAfter(_, _)
SelectAfter(entries, cutoff) ==
  IF entries = <<>> THEN <<>>
  ELSE LET rest == SelectAfter(Tail(entries), cutoff)
       IN IF Head(entries).t > cutoff THEN <<Head(entries)>> \o rest ELSE rest

RECURSIVE SelectFrom(_, _)
\* entries.filter((p) => p.t >= cutoff)
SelectFrom(entries, cutoff) ==
  IF entries = <<>> THEN <<>>
  ELSE LET rest == SelectFrom(Tail(entries), cutoff)
       IN IF Head(entries).t >= cutoff THEN <<Head(entries)>> \o rest ELSE rest

\* shapeBackpackEntries: every stored entry carries a numeric pct
shapeBackpackEntries(entries) ==
  [i \in 1 .. Len(entries) |->
     [t |-> entries[i].t, v |-> entries[i].v, pct |-> clampPercent(entries[i].pct)]]

recordMemorySession(m, userKey, playerId, username, lastSeen, currentHoney) ==
  IF playerId = 0 THEN m
  ELSE LET publicId == getSessionPublicId(userKey, playerId)
           m1 == [m EXCEPT !.memorySessions =
                    Put(@, <<userKey, playerId>>,
                        [playerId |-> playerId,
                         username |-> IF username = NoName THEN Player ELSE username,
                         lastSeen |-> lastSeen,
                         currentHoney |-> currentHoney,
                         publicId |-> publicId])]
       IN cachePublicMapping(m1, publicId, userKey, username)

\* hasNectar of POST /api/ingest
HasNectar(body) == \E type \in NECTAR_TYPES : IsFiniteNumber(body.nectar[type])

\* t of POST /api/ingest: Math.floor(at) for a number, else nowSec()
EventTime(body, clock) == IF IsFiniteNumber(body.at) THEN body.at[2] ELSE clock

\* The backpack entry writeMemory pushes
BackpackEntry(bucket, body, t) ==
  LET capValue == IF IsFiniteNumber(body.backpackCapacity)
                  THEN body.backpackCapacity[2] ELSE bucket.lastCapacity
  IN IF capValue > 0
     THEN [t |-> t, v |-> body.backpack[2], cap |-> capValue,
           pct |-> clampPercent((100 * body.backpack[2]) \div capValue)]
     ELSE [t |-> t, v |-> body.backpack[2], cap |-> 0, pct |-> 0]

\* a prune that keeps the newest point only
PruneToNewest(entries, cutoff) ==
  IF entries = <<>> THEN <<>> ELSE <<entries[Len(entries)]>>

Prune(entries, cutoff) == SelectFrom(entries, cutoff)

\* writeMemory on an own bucket (never throws)
WriteBucket(bucket, body, t, clock) ==
  LET cleanedName == sanitizeUsername(body.username)
      cutoff == clock - 86400 * 30
      push(seq, cond, e) == IF cond THEN Append(seq, e) ELSE seq
  IN [bucket EXCEPT
        !.lastSeen = t,
        !.username = IF cleanedName # NoName THEN cleanedName ELSE @,
        !.honey = Prune(push(@, IsFiniteNumber(body.honey),
                             [t |-> t, v |-> body.honey[2]]), cutoff),
        !.pollen = Prune(push(@, IsFiniteNumber(body.pollen),
                              [t |-> t, v |-> body.pollen[2]]), cutoff),
        !.backpack = Prune(push(@, IsFiniteNumber(body.backpack),
                                BackpackEntry(bucket, body, t)), cutoff),
        !.lastCapacity = IF IsFiniteNumber(body.backpackCapacity)
                         THEN body.backpackCapacity[2] ELSE @,
        !.currentHoney = IF IsNumber(body.currentHoney) THEN body.currentHoney[2] ELSE @,
        !.nectar = [type \in NECTAR_TYPES |->
                      Prune(push(@[type], HasNectar(body) /\ IsFiniteNumber(body.nectar[type]),
                                 [t |-> t, v |-> body.nectar[type][2]]), cutoff)]]

\* writeMemory: [mem |-> the memory state after it, threw |-> it raised].
\* On an inherited object bucket.honey is undefined, so the first push, or at
\* the latest the prune's bucket.honey.filter, raises a TypeError; lastSeen,
\* the username and the public-id mapping are written before that.
writeMemory(m, userKey, body, t, clock) ==
  LET cleanedName == sanitizeUsername(body.username)
      m1 == getBucket(m, userKey)
  IN IF IsInherited(userKey)
     THEN LET m2 == [m1 EXCEPT !.inherited[userKey].lastSeen = TRUE,
                               !.inherited[userKey].username =
                                  IF cleanedName # NoName THEN cleanedName ELSE @]
          IN [mem |-> cachePublicMapping(m2, getPublicId(userKey), userKey,
                                         m2.inherited[userKey].username),
              threw |-> TRUE]
     ELSE LET bucket == WriteBucket(m1.samples[userKey], body, t, clock)
              m2 == [m1 EXCEPT !.samples[userKey] = bucket]
              m3 == cachePublicMapping(m2, bucket.publicId, userKey, bucket.username)
              numericPlayerId == normalizePlayerId(body.playerId)
          IN [mem |-> recordMemorySession(m3, userKey, numericPlayerId,
                                          IF bucket.username # NoName
                                          THEN bucket.username ELSE Player,
                                          t, bucket.currentHoney),
              threw |-> FALSE]

\* collectMemoryStats: [mem, threw, data].  On an inherited object
\* bucket.honey.filter raises a TypeError.
NoData == [honey |-> <<>>, pollen |-> <<>>, backpack |-> <<>>,
           nectar |-> [type \in NECTAR_TYPES |-> <<>>], currentHoney |-> 0]

collectMemoryStats(m, userKey, cutoff) ==
  LET m1 == getBucket(m, userKey)
  IN IF IsInherited(userKey)
     THEN [mem |-> m1, threw |-> TRUE, data |-> NoData]
     ELSE LET bucket == m1.samples[userKey]
              strip(entries) == [i \in 1 .. Len(entries) |->
                                   [t |-> entries[i].t, v |-> entries[i].v]]
          IN [mem |-> m1, threw |-> FALSE,
              data |-> [honey |-> SelectFrom(bucket.honey, cutoff),
                        pollen |-> SelectFrom(bucket.pollen, cutoff),
                        backpack |-> shapeBackpackEntries(SelectFrom(bucket.backpack, cutoff)),
                        nectar |-> [type \in NECTAR_TYPES |->
                                      SelectFrom(bucket.nectar[type], cutoff)],
                        currentHoney |-> bucket.currentHoney]]

----------------------------------------------------------------------------
(* Durable store.  A database state db is the record                       *)
(* [dbUsers, dbSamples, dbSessions].                                       *)

Db == [dbUsers |-> dbUsers, dbSamples |-> dbSamples, dbSessions |-> dbSessions]

SetDb(db) ==
  /\ dbUsers' = db.dbUsers
  /\ dbSamples' = db.dbSamples
  /\ dbSessions' = db.dbSessions

NectarOrder == <<"Comforting", "Motivating", "Satisfying", "Refreshing", "Invigorating">>

nectarMetricForType(type) ==
  CASE type = "Comforting" -> "nectar_comforting"
    [] type = "Motivating" -> "nectar_motivating"
    [] type = "Satisfying" -> "nectar_satisfying"
    [] type = "Refreshing" -> "nectar_refreshing"
    [] type = "Invigorating" -> "nectar_invigorating"

\* INSERT INTO users ... ON DUPLICATE KEY UPDATE public_id = COALESCE(public_id, ...)
ensureUser(db, userKey) ==
  IF userKey \in DOMAIN db.dbUsers THEN db
  ELSE [db EXCEPT !.dbUsers =
          Put(@, userKey, [public_id |-> getPublicId(userKey), current_honey |-> 0,
                           last_activity |-> 0, username |-> NoName])]

\* the rows POST /api/ingest collects in `inserts`
Inserts(userKey, body, t) ==
  LET row(metric, x) == [user_key |-> userKey, metric |-> metric, t |-> t, v |-> x[2]]
      one(cond, metric, x) == IF cond THEN <<row(metric, x)>> ELSE <<>>
      nect(i) == one(HasNectar(body) /\ IsFiniteNumber(body.nectar[NectarOrder[i]]),
                     nectarMetricForType(NectarOrder[i]), body.nectar[NectarOrder[i]])
  IN one(IsFiniteNumber(body.honey), "honey", body.honey)
     \o one(IsFiniteNumber(body.pollen), "pollen", body.pollen)
     \o one(IsFiniteNumber(body.backpack), "backpack", body.backpack)
     \o one(IsFiniteNumber(body.backpackCapacity), "backpack_capacity", body.backpackCapacity)
     \o nect(1) \o nect(2) \o nect(3) \o nect(4) \o nect(5)

\* an insert under a unique key (user_key, metric, t): a row that is already
\* there is skipped
InsertSamplesUnique(db, rows) ==
  [db EXCEPT !.dbSamples =
     @ \o SelectSeq(rows, LAMBDA r : \A k \in 1 .. Len(db.dbSamples) :
                                       ~(/\ db.dbSamples[k].user_key = r.user_key
                                         /\ db.dbSamples[k].metric = r.metric
                                         /\ db.dbSamples[k].t = r.t))]

\* INSERT INTO samples (user_key, metric, t, v) VALUES ?
InsertSamples(db, rows) == [db EXCEPT !.dbSamples = @ \o rows]

\* UPDATE users SET current_honey = COALESCE(?, current_honey), last_activity = ?,
\*   username = COALESCE(?, username) WHERE user_key = ?
UpdateUser(db, userKey, body, t) ==
  LET cleanedName == sanitizeUsername(body.username)
  IN IF userKey \notin DOMAIN db.dbUsers THEN db
     ELSE [db EXCEPT
             !.dbUsers[userKey].current_honey =
                IF IsNumber(body.currentHoney) THEN body.currentHoney[2] ELSE @,
             !.dbUsers[userKey].last_activity = t,
             !.dbUsers[userKey].username = IF cleanedName # NoName THEN cleanedName ELSE @]

\* the upsert of recordDbSession
UpsertSession(db, userKey, playerId, username, lastSeen, currentHoney) ==
  LET k == <<userKey, playerId>>
      old == IF k \in DOMAIN db.dbSessions
             THEN db.dbSessions[k]
             ELSE [session_public_id |-> getSessionPublicId(userKey, playerId),
                   username |-> NoName, last_seen |-> 0, current_honey |-> 0]
  IN [db EXCEPT !.dbSessions =
        Put(@, k, [old EXCEPT
                     !.username = IF username # NoName THEN username ELSE @,
                     !.last_seen = lastSeen,
                     !.current_honey = IF IsNumber(currentHoney) THEN currentHoney[2] ELSE @])]

RECURSIVE InsertByT(_, _)
InsertByT(sorted, row) ==
  IF sorted = <<>> THEN <<row>>
  ELSE IF Head(sorted).t <= row.t THEN <<Head(sorted)>> \o InsertByT(Tail(sorted), row)
  ELSE <<row>> \o sorted

RECURSIVE OrderByT(_)
\* ORDER BY t ASC over idx_user_time (user_key, t): ties in id order
OrderByT(rows) ==
  IF rows = <<>> THEN <<>>
  ELSE InsertByT(OrderByT(SubSeq(rows, 1, Len(rows) - 1)), rows[Len(rows)])

\* a SELECT without the WHERE user_key = ?
SelectSamplesOfAll(db, userKey, cutoff) ==
  OrderByT(SelectSeq(db.dbSamples, LAMBDA r : r.t >= cutoff))

\* SELECT metric, t, v FROM samples WHERE user_key = ? AND t >= ? ORDER BY t ASC
SelectSamples(db, userKey, cutoff) ==
  OrderByT(SelectSeq(db.dbSamples, LAMBDA r : r.user_key = userKey /\ r.t >= cutoff))

\* the rows of one metric, as {t, v} points
PointsOf(rows, metric) ==
  LET mine == SelectSeq(rows, LAMBDA r : r.metric = metric)
  IN [i \in 1 .. Len(mine) |-> [t |-> mine[i].t, v |-> mine[i].v]]

\* capacityByTime.get(t): the value of the last capacity entry at t; 0 stands
\* for undefined (a stored capacity of 0 gives the same percent as none)
CapacityAt(capacityEntries, t) ==
  LET at == SelectSeq(capacityEntries, LAMBDA e : e.t = t)
  IN IF at = <<>> THEN 0 ELSE at[Len(at)].v

HasCapacityAt(capacityEntries, t) == \E i \in 1 .. Len(capacityEntries) : capacityEntries[i].t = t

RECURSIVE MergeFrom(_, _, _)
MergeFrom(backpackEntries, capacityEntries, lastCap) ==
  IF backpackEntries = <<>> THEN <<>>
  ELSE LET entry == Head(backpackEntries)
           cap == IF HasCapacityAt(capacityEntries, entry.t)
                  THEN CapacityAt(capacityEntries, entry.t) ELSE lastCap
           pct == IF cap > 0 THEN clampPercent((100 * entry.v) \div cap) ELSE 0
       IN <<[t |-> entry.t, v |-> entry.v, pct |-> pct]>>
          \o MergeFrom(Tail(backpackEntries), capacityEntries,
                       IF cap > 0 THEN cap ELSE lastCap)

mergeBackpackSeries(backpackEntries, capacityEntries) ==
  MergeFrom(backpackEntries, capacityEntries, 0)

\* collectDbStats when both queries return
collectDbStats(db, userKey, cutoff) ==
  LET rows == SelectSamples(db, userKey, cutoff)
  IN [honey |-> PointsOf(rows, "honey"),
      pollen |-> PointsOf(rows, "pollen"),
      backpack |-> mergeBackpackSeries(PointsOf(rows, "backpack"),
                                       PointsOf(rows, "backpack_capacity")),
      nectar |-> [type \in NECTAR_TYPES |-> PointsOf(rows, nectarMetricForType(type))],
      currentHoney |-> IF userKey \in DOMAIN db.dbUsers
                       THEN db.dbUsers[userKey].current_honey ELSE 0]

\* the public id collectDbStats caches: info.public_id || getPublicId(userKey)
DbPublicId(db, userKey) ==
  IF userKey \in DOMAIN db.dbUsers THEN db.dbUsers[userKey].public_id
  ELSE getPublicId(userKey)

DbUsername(db, userKey) ==
  IF userKey \in DOMAIN db.dbUsers THEN db.dbUsers[userKey].username ELSE NoName

----------------------------------------------------------------------------
(* Requests.  A workload names the user keys, the ingest bodies, the clock *)
(* readings and the read parameters of one group of clients.               *)

EmptyBody ==
  [honey |-> Undef, pollen |-> Undef, backpack |-> Undef, backpackCapacity |-> Undef,
   nectar |-> NoNectar, at |-> Undef, currentHoney |-> Undef, username |-> NoName,
   playerId |-> Undef]

Workloads == {"retention", "backpack", "identity", "prototype", "isolation"}

UsersOf(w) ==
  CASE w = "retention" -> {"u1"}
    [] w = "backpack" -> {"u1"}
    [] w = "identity" -> {"u1"}
    [] w = "prototype" -> ProtoKeys
    [] w = "isolation" -> {"u1", "u2"}
    [] w = "history" -> {"u1"}
    [] w = "leaderboard" -> {"u1", "u2"}
    [] w = "limits" -> {"u1"}
    [] w = "roster" -> {"u1"}
    [] w = "resolve" -> {"u1", "u2"}

BodiesOf(w) ==
  CASE w = "retention" ->
         { [EmptyBody EXCEPT !.honey = Num(10), !.at = Num(100)],
           [EmptyBody EXCEPT !.honey = Num(10), !.at = Num(100000)] }
    [] w = "backpack" ->
         { [EmptyBody EXCEPT !.backpack = Num(300), !.backpackCapacity = Num(100)],
           [EmptyBody EXCEPT !.backpack = Num(50), !.at = Num(1400)],
           [EmptyBody EXCEPT !.pollen = Num(7), !.backpackCapacity = Num(200),
                             !.at = Num(1000)],
           [EmptyBody EXCEPT !.backpackCapacity = Num(100)] }
    [] w = "identity" ->
         { [EmptyBody EXCEPT !.currentHoney = Num(42), !.playerId = Num(7),
                             !.username = <<" ", "b", "o", "b">>],
           [EmptyBody EXCEPT !.nectar = [NoNectar EXCEPT !["Comforting"] = Num(3)],
                             !.at = Num(1000)],
           [EmptyBody EXCEPT !.honey = Inf],
           EmptyBody }
    [] w = "prototype" ->
         { [EmptyBody EXCEPT !.honey = Num(10), !.at = Num(1000)],
           [EmptyBody EXCEPT !.currentHoney = Num(42), !.playerId = Num(7)] }
    [] w = "isolation" ->
         { [EmptyBody EXCEPT !.honey = Num(5), !.playerId = Num(7), !.at = Num(1000)],
           [EmptyBody EXCEPT !.honey = Num(9), !.currentHoney = Num(3)] }
    [] w = "history" ->
         { [EmptyBody EXCEPT !.honey = Num(5), !.at = Num(100)],
           [EmptyBody EXCEPT !.honey = Num(7), !.at = Num(200)],
           [EmptyBody EXCEPT !.honey = Num(9), !.pollen = Num(3), !.at = Num(90000)],
           EmptyBody }
    [] w = "leaderboard" ->
         { [EmptyBody EXCEPT !.honey = Num(5), !.at = Num(2600000)],
           [EmptyBody EXCEPT !.honey = Num(3)] }
    [] w = "limits" -> { [EmptyBody EXCEPT !.honey = Num(3), !.at = Num(100)] }
    [] w = "roster" ->
         { [EmptyBody EXCEPT !.currentHoney = Num(42), !.playerId = Num(7),
                             !.at = Num(1380)],
           [EmptyBody EXCEPT !.honey = Num(5), !.playerId = Num(7),
                             !.at = Num(5000), !.username = <<"b", "o", "b">>] }
    [] w = "resolve" ->
         { [EmptyBody EXCEPT !.currentHoney = Num(42), !.playerId = Num(7)],
           EmptyBody }

ClockOf(w) ==
  CASE w = "retention" -> {1500, 2692000, 2692001}
    [] w = "backpack" -> {1500}
    [] w = "identity" -> {1500}
    [] w = "prototype" -> {1500}
    [] w = "isolation" -> {1500}
    [] w = "history" -> {1500}
    [] w = "leaderboard" -> {}
    [] w = "limits" -> {2692001}
    [] w = "roster" -> {1500, 1501}
    [] w = "resolve" -> {1500}

PeriodsOf(w) ==
  CASE w = "retention" -> {<<"3", "0", "d">>, <<"9", "9", "d">>}
    [] w = "backpack" -> {<<"1", "h">>}
    [] w = "identity" -> {AbsentPeriod}
    [] w = "prototype" -> {<<"1", "h">>}
    [] w = "isolation" -> {AbsentPeriod}
    [] w = "history" -> {}
    [] w = "leaderboard" -> {}
    [] w = "limits" -> {}
    [] w = "roster" -> {AbsentPeriod}
    [] w = "resolve" -> {AbsentPeriod}

DaysOf(w) ==
  CASE w = "retention" -> {0}
    [] w = "backpack" -> {}
    [] w = "identity" -> {}
    [] w = "prototype" -> {}
    [] w = "isolation" -> {}
    [] w = "history" -> {0, 1}
    [] w = "leaderboard" -> {}
    [] w = "limits" -> {}
    [] w = "roster" -> {}
    [] w = "resolve" -> {}

DAY == 86400

\* a guard that takes a backpackCapacity for a metric
NoMetricsProvidedCapacity(body) ==
  /\ ~IsNumber(body.honey)
  /\ ~IsNumber(body.pollen)
  /\ ~IsNumber(body.backpack)
  /\ ~IsNumber(body.backpackCapacity)
  /\ ~IsNumber(body.currentHoney)
  /\ ~HasNectar(body)

\* a guard that does not take a currentHoney for a metric
NoMetricsProvidedHoney(body) ==
  /\ ~IsNumber(body.honey)
  /\ ~IsNumber(body.pollen)
  /\ ~IsNumber(body.backpack)
  /\ ~HasNectar(body)

\* the guard of the 400 "no metrics provided"
NoMetricsProvided(body) ==
  /\ ~IsNumber(body.honey)
  /\ ~IsNumber(body.pollen)
  /\ ~IsNumber(body.backpack)
  /\ ~IsNumber(body.currentHoney)
  /\ ~HasNectar(body)

\* a request of `handlers`: pc is where its handler stands, tr the calls it
\* has made so far, mode how it was answered ("" while in flight, "rejected"
\* for a 400, "threw" when writeMemory raised)
Request(userKey, body, t, pc, tr, mode) ==
  [userKey |-> userKey, body |-> body, t |-> t, pc |-> pc, tr |-> tr, mode |-> mode]

Finished(h, mode) == [h EXCEPT !.pc = "done", !.tr = <<>>, !.mode = mode]

NoResp ==
  [op |-> "none", userKey |-> "", status |-> 0, mode |-> "", body |-> EmptyBody,
   t |-> 0, tr |-> <<>>, clock |-> 0, cutoff |-> 0, served |-> "", raised |-> FALSE,
   data |-> NoData, total |-> 0, rows |-> <<>>,
   key |-> <<>>, config |-> <<"undef", 0>>, owner |-> "", seen |-> 0,
   resolved |-> "", limit |-> 0, queued |-> 0, commands |-> [kind |-> "undefined", items |-> <<>>]]

\* res.json({ ok: true, mode }) of POST /api/ingest; status 0 stands for a
\* handler that ended without sending a response.
IngestResp(userKey, body, t, status, mode, tr) ==
  [NoResp EXCEPT !.op = "ingest", !.userKey = userKey, !.status = status, !.mode = mode,
                 !.body = body, !.t = t, !.tr = tr, !.clock = now]

Raised(pc) ==
  CASE pc = "ensureUser" -> "ensureUser:raised"
    [] pc = "insert" -> "insert:raised"
    [] pc = "update" -> "update:raised"
    [] pc = "session" -> "session:raised"

----------------------------------------------------------------------------
(* POST /api/ingest *)

\* 400: no recognized numeric field
IngestRejected(userKey, body) ==
  LET t == EventTime(body, now)
  IN /\ Len(handlers) < MaxIngests
     /\ NoMetricsProvided(body)
     /\ handlers' = Append(handlers, Request(userKey, body, t, "done", <<>>, "rejected"))
     /\ resp' = IngestResp(userKey, body, t, 400, "", <<>>)
     /\ UNCHANGED <<fixedVars, now, storeVars, ackLog>>

\* !USE_DB: writeMemory(), then mode "memory".  A TypeError raised by
\* writeMemory reaches the framework's error handler: 500.
IngestMemory(userKey, body) ==
  LET t == EventTime(body, now)
      w == writeMemory(Mem, userKey, body, t, now)
  IN /\ Len(handlers) < MaxIngests
     /\ ~NoMetricsProvided(body)
     /\ ~USE_DB
     /\ SetMem(w.mem)
     /\ IF w.threw
        THEN /\ resp' = IngestResp(userKey, body, t, 500, "", <<"writeMemory">>)
             /\ handlers' = Append(handlers, Request(userKey, body, t, "done", <<>>, "threw"))
             /\ UNCHANGED ackLog
        ELSE /\ resp' = IngestResp(userKey, body, t, 200, "memory", <<"writeMemory">>)
             /\ handlers' = Append(handlers, Request(userKey, body, t, "done", <<>>, "memory"))
             /\ ackLog' = Append(ackLog, Len(handlers) + 1)
     /\ UNCHANGED <<fixedVars, now, dbUsers, dbSamples, dbSessions>>

\* USE_DB: the async block starts and awaits ensureUser()
IngestDurable(userKey, body) ==
  /\ Len(handlers) < MaxIngests
  /\ ~NoMetricsProvided(body)
  /\ USE_DB
  /\ handlers' = Append(handlers, Request(userKey, body, EventTime(body, now),
                                          "ensureUser", <<>>, ""))
  /\ resp' = NoResp
  /\ UNCHANGED <<fixedVars, now, storeVars, ackLog>>

\* res.json({ ok: true, mode: "mysql" })
RespondMysql(i, tr) ==
  LET h == handlers[i]
  IN /\ handlers' = [handlers EXCEPT ![i] = Finished(h, "mysql")]
     /\ resp' = IngestResp(h.userKey, h.body, h.t, 200, "mysql", tr)
     /\ ackLog' = Append(ackLog, i)

Continue(i, pc, tr) ==
  /\ handlers' = [handlers EXCEPT ![i].pc = pc, ![i].tr = tr]
  /\ resp' = NoResp
  /\ UNCHANGED ackLog

\* ensureUser() returns; the public id is cached and the inserts are collected
EnsureUserReturns(i) ==
  LET h == handlers[i]
      m == cachePublicMapping(Mem, getPublicId(h.userKey), h.userKey,
                              sanitizeUsername(h.body.username))
  IN /\ h.pc = "ensureUser"
     /\ SetDb(ensureUser(Db, h.userKey))
     /\ SetMem(m)
     /\ Continue(i, IF Inserts(h.userKey, h.body, h.t) # <<>> THEN "insert" ELSE "update",
                 Append(h.tr, "ensureUser"))
     /\ UNCHANGED <<fixedVars, now>>

\* INSERT INTO samples returns
InsertSamplesReturns(i) ==
  LET h == handlers[i]
  IN /\ h.pc = "insert"
     /\ SetDb(InsertSamples(Db, Inserts(h.userKey, h.body, h.t)))
     /\ Continue(i, "update", Append(h.tr, "insert"))
     /\ UNCHANGED <<fixedVars, now, samples, inherited, publicIdToUserKey, memorySessions>>

\* UPDATE users returns; without a player id the handler answers
UpdateUserReturns(i) ==
  LET h == handlers[i]
      tr == Append(h.tr, "update")
  IN /\ h.pc = "update"
     /\ SetDb(UpdateUser(Db, h.userKey, h.body, h.t))
     /\ IF normalizePlayerId(h.body.playerId) # 0
        THEN Continue(i, "session", tr)
        ELSE RespondMysql(i, tr)
     /\ UNCHANGED <<fixedVars, now, samples, inherited, publicIdToUserKey, memorySessions>>

\* recordDbSession: the upsert returns
RecordDbSessionReturns(i) ==
  LET h == handlers[i]
      playerId == normalizePlayerId(h.body.playerId)
      cleanedName == sanitizeUsername(h.body.username)
  IN /\ h.pc = "session"
     /\ SetDb(UpsertSession(Db, h.userKey, playerId, cleanedName, h.t, h.body.currentHoney))
     /\ SetMem(cachePublicMapping(Mem, getSessionPublicId(h.userKey, playerId),
                                  h.userKey, cleanedName))
     /\ RespondMysql(i, Append(h.tr, "session"))
     /\ UNCHANGED <<fixedVars, now>>

\* recordDbSession: the upsert raises; the error is logged and dropped
RecordDbSessionRaises(i) ==
  LET h == handlers[i]
  IN /\ h.pc = "session"
     /\ RespondMysql(i, Append(h.tr, Raised(h.pc)))
     /\ UNCHANGED <<fixedVars, now, storeVars>>

\* a catch block that answers with the mode of the try block
FallbackWrongMode(i, tr) ==
  LET h == handlers[i]
      w == writeMemory(Mem, h.userKey, h.body, h.t, now)
  IN /\ SetMem(w.mem)
     /\ IF w.threw
        THEN /\ resp' = IngestResp(h.userKey, h.body, h.t, 0, "", tr)
             /\ handlers' = [handlers EXCEPT ![i] = Finished(h, "threw")]
             /\ UNCHANGED ackLog
        ELSE /\ resp' = IngestResp(h.userKey, h.body, h.t, 200, "mysql", tr)
             /\ handlers' = [handlers EXCEPT ![i] = Finished(h, "mysql")]
             /\ ackLog' = Append(ackLog, i)

\* the catch block: writeMemory(), then mode "memory-fallback".  A TypeError
\* raised by writeMemory inside the catch rejects the async block's promise:
\* no response is sent.
Fallback(i, tr) ==
  LET h == handlers[i]
      w == writeMemory(Mem, h.userKey, h.body, h.t, now)
  IN /\ SetMem(w.mem)
     /\ IF w.threw
        THEN /\ resp' = IngestResp(h.userKey, h.body, h.t, 0, "", tr)
             /\ handlers' = [handlers EXCEPT ![i] = Finished(h, "threw")]
             /\ UNCHANGED ackLog
        ELSE /\ resp' = IngestResp(h.userKey, h.body, h.t, 200, "memory-fallback", tr)
             /\ handlers' = [handlers EXCEPT ![i] = Finished(h, "memory-fallback")]
             /\ ackLog' = Append(ackLog, i)

\* ensureUser, the INSERT or the UPDATE raises
DurableCallRaises(i) ==
  LET h == handlers[i]
  IN /\ h.pc \in {"ensureUser", "insert", "update"}
     /\ Fallback(i, h.tr \o <<Raised(h.pc), "writeMemory">>)
     /\ UNCHANGED <<fixedVars, now, dbUsers, dbSamples, dbSessions>>

----------------------------------------------------------------------------
(* GET /api/stats (sendStatsResponse) and GET /api/history *)

\* the requested window taken without the 30-day maximum
StatsPeriodSecNoClamp(period) ==
  toSecondsNoClamp(IF period = AbsentPeriod \/ period = <<>> THEN <<"2", "4", "h">> ELSE period)

\* toSeconds(req.query.period || "24h")
StatsPeriodSec(period) ==
  toSeconds(IF period = AbsentPeriod \/ period = <<>> THEN <<"2", "4", "h">> ELSE period)

StatsResp(userKey, cutoff, status, served, raised, data) ==
  [NoResp EXCEPT !.op = "stats", !.userKey = userKey, !.status = status,
                 !.clock = now, !.cutoff = cutoff, !.served = served,
                 !.raised = raised, !.data = data]

\* the memory branch and the catch branch of sendStatsResponse: a TypeError
\* raised by collectMemoryStats rejects the async function's promise and no
\* response is sent (status 0)
RespondFromMemory(userKey, cutoff, raised) ==
  LET c == collectMemoryStats(Mem, userKey, cutoff)
  IN /\ SetMem(c.mem)
     /\ resp' = IF c.threw
                THEN StatsResp(userKey, cutoff, 0, "memory", raised, NoData)
                ELSE StatsResp(userKey, cutoff, 200, "memory", raised, c.data)

StatsMemory(userKey, period) ==
  /\ ~USE_DB
  /\ RespondFromMemory(userKey, now - StatsPeriodSec(period), FALSE)
  /\ UNCHANGED <<fixedVars, now, dbUsers, dbSamples, dbSessions, handlers, ackLog>>

\* both queries of collectDbStats return
StatsDurable(userKey, period) ==
  LET cutoff == now - StatsPeriodSec(period)
  IN /\ USE_DB
     /\ SetMem(cachePublicMapping(Mem, DbPublicId(Db, userKey), userKey,
                                  DbUsername(Db, userKey)))
     /\ resp' = StatsResp(userKey, cutoff, 200, "db", FALSE,
                          collectDbStats(Db, userKey, cutoff))
     /\ UNCHANGED <<fixedVars, now, dbUsers, dbSamples, dbSessions, handlers, ackLog>>

\* a query of collectDbStats raises: the catch answers from memory
StatsDurableRaises(userKey, period) ==
  /\ USE_DB
  /\ RespondFromMemory(userKey, now - StatsPeriodSec(period), TRUE)
  /\ UNCHANGED <<fixedVars, now, dbUsers, dbSamples, dbSessions, handlers, ackLog>>

\* date.unix() of the UTC day numbered `day` (days since the epoch)
DayStart(day) == day * DAY

HistoryResp(userKey, status, raised, cutoff, data, total) ==
  [NoResp EXCEPT !.op = "history", !.userKey = userKey, !.status = status,
                 !.clock = now, !.cutoff = cutoff, !.served = "db",
                 !.raised = raised, !.data = data, !.total = total]

\* a total that keeps the last value only (= in place of +=)
SumVLast(points) == IF points = <<>> THEN 0 ELSE points[Len(points)].v

RECURSIVE SumV(_)
SumV(points) == IF points = <<>> THEN 0 ELSE Head(points).v + SumV(Tail(points))

\* a handler whose catch answers from the in-memory bucket
HistoryFromMemory(userKey, day, raises) ==
  LET startT == DayStart(day)
      bucket == IF userKey \in DOMAIN samples THEN samples[userKey]
                ELSE [honey |-> <<>>, pollen |-> <<>>]
  IN /\ (raises => USE_DB)
     /\ resp' = [NoResp EXCEPT !.op = "history", !.userKey = userKey, !.status = 200,
                                !.clock = now, !.cutoff = startT, !.served = "memory",
                                !.raised = raises,
                                !.data = [NoData EXCEPT !.honey = bucket.honey,
                                                        !.pollen = bucket.pollen]]
     /\ UNCHANGED <<fixedVars, now, storeVars, handlers, ackLog>>

\* GET /api/history?date=: 501 without the database, 500 when the query
\* raises, else the day's honey and pollen rows and the honey total
History(userKey, day, raises) ==
  LET startT == DayStart(day)
      endT == DayStart(day + 1)
      rows == SelectSeq(SelectSamples(Db, userKey, startT), LAMBDA r : r.t < endT)
      honey == PointsOf(rows, "honey")
  IN /\ (raises => USE_DB)
     /\ resp' = IF ~USE_DB THEN HistoryResp(userKey, 501, FALSE, startT, NoData, 0)
                ELSE IF raises THEN HistoryResp(userKey, 500, TRUE, startT, NoData, 0)
                ELSE HistoryResp(userKey, 200, FALSE, startT,
                                 [NoData EXCEPT !.honey = honey,
                                                !.pollen = PointsOf(rows, "pollen")],
                                 SumV(honey))
     /\ UNCHANGED <<fixedVars, now, storeVars, handlers, ackLog>>

\* the clock advances
Tick ==
  /\ \E c \in ClockOf(workload) : c > now /\ now' = c
  /\ resp' = NoResp
  /\ UNCHANGED <<fixedVars, storeVars, handlers, ackLog>>

\* Object.prototype, the prototype of an object literal
ObjectPrototype == [kind |-> "Object.prototype", items |-> <<>>]

----------------------------------------------------------------------------
(* Specification of the service *)

InitStores ==
  /\ samples = <<>>
  /\ inherited = [k \in ProtoKeys |-> [nectar |-> FALSE, publicId |-> FALSE,
                                       lastSeen |-> FALSE, username |-> NoName]]
  /\ publicIdToUserKey = <<>>
  /\ memorySessions = <<>>
  /\ dbUsers = <<>>
  /\ dbSamples = <<>>
  /\ dbSessions = <<>>
  /\ handlers = <<>>
  /\ resp = NoResp
  /\ ackLog = <<>>
  /\ configs = <<>>
  /\ dbConfigs = <<>>
  /\ configRequests = <<>>
  /\ configAcks = <<>>
  /\ controlCommands = <<>>
  /\ controlProto = ObjectPrototype
  /\ commandCount = 0
  /\ mailLog = <<>>

\* the bodies a client sends under a user key: in the "leaderboard" workload
\* u1 reports honey stamped by the client and u2 honey stamped by the server,
\* in the "isolation" workload u1 plays a session and u2 reports its balance
BodiesFor(w, userKey) ==
  IF w = "leaderboard"
  THEN IF userKey = "u1" THEN {[EmptyBody EXCEPT !.honey = Num(5), !.at = Num(2600000)]}
       ELSE {[EmptyBody EXCEPT !.honey = Num(3)]}
  ELSE IF w = "isolation"
  THEN IF userKey = "u1"
       THEN {[EmptyBody EXCEPT !.honey = Num(5), !.playerId = Num(7), !.at = Num(1000)]}
       ELSE {[EmptyBody EXCEPT !.honey = Num(9), !.currentHoney = Num(3)]}
  ELSE BodiesOf(w)

Init ==
  /\ tsInput = AbsentPeriod
  /\ tsResult = -1
  /\ USE_DB \in BOOLEAN
  /\ workload \in Workloads
  /\ now = 1500
  /\ InitStores

Next ==
  \/ \E userKey \in UsersOf(workload) : \E body \in BodiesFor(workload, userKey) :
       IngestRejected(userKey, body)
  \/ \E userKey \in UsersOf(workload) : \E body \in BodiesFor(workload, userKey) :
       IngestMemory(userKey, body)
  \/ \E userKey \in UsersOf(workload) : \E body \in BodiesFor(workload, userKey) :
       IngestDurable(userKey, body)
  \/ \E i \in 1 .. Len(handlers) : EnsureUserReturns(i)
  \/ \E i \in 1 .. Len(handlers) : InsertSamplesReturns(i)
  \/ \E i \in 1 .. Len(handlers) : UpdateUserReturns(i)
  \/ \E i \in 1 .. Len(handlers) : RecordDbSessionReturns(i)
  \/ \E i \in 1 .. Len(handlers) : RecordDbSessionRaises(i)
  \/ \E i \in 1 .. Len(handlers) : DurableCallRaises(i)
  \/ \E userKey \in UsersOf(workload), period \in PeriodsOf(workload) :
       StatsMemory(userKey, period)
  \/ \E userKey \in UsersOf(workload), period \in PeriodsOf(workload) :
       StatsDurable(userKey, period)
  \/ \E userKey \in UsersOf(workload), period \in PeriodsOf(workload) :
       StatsDurableRaises(userKey, period)
  \/ \E userKey \in UsersOf(workload), day \in DaysOf(workload), raises \in BOOLEAN :
       History(userKey, day, raises)
  \/ Tick

Spec == Init /\ [][Next]_vars

----------------------------------------------------------------------------
(* Specification of the resolver alone: toSeconds applied to every period  *)
(* of at most MaxPeriodLen characters.                                     *)

PeriodChars == {"0", "1", "3", "9", "s", "m", "h", "d", "x"}

RECURSIVE StringsUpTo(_)
StringsUpTo(n) ==
  IF n = 0 THEN {<<>>}
  ELSE LET shorter == StringsUpTo(n - 1)
       IN shorter \cup {Append(p, c) : p \in shorter, c \in PeriodChars}

PeriodInputs == {AbsentPeriod} \cup StringsUpTo(MaxPeriodLen)

InitResolver ==
  /\ tsInput \in PeriodInputs
  /\ tsResult = -1
  /\ USE_DB = FALSE
  /\ workload = "retention"
  /\ now = 1500
  /\ InitStores

Resolve ==
  /\ tsResult = -1
  /\ tsResult' = toSeconds(tsInput)
  /\ UNCHANGED <<tsInput, appVars>>

NextResolver == Resolve

SpecResolver == InitResolver /\ [][NextResolver]_vars

----------------------------------------------------------------------------
(* The history / leaderboard variant (src/Index.js, lines 107-526): its    *)
(* POST /api/ingest, GET /api/history and GET /api/leaderboard.  A bucket  *)
(* holds honey, pollen, tokens and buffs; the requests modelled carry      *)
(* honey and pollen only.                                                  *)

HistEmptyBucket == [honey |-> <<>>, pollen |-> <<>>, tokens |-> <<>>, buffs |-> <<>>]

\* getBucket of the variant, for keys that name no inherited property
HistGetBucket(buckets, userKey) ==
  IF userKey \in DOMAIN buckets THEN buckets ELSE Put(buckets, userKey, HistEmptyBucket)

\* writeMemory of the variant: pushes, and no prune
HistWriteMemory(buckets, userKey, body, t) ==
  LET b1 == HistGetBucket(buckets, userKey)
      push(seq, x) == IF IsFiniteNumber(x) THEN Append(seq, [t |-> t, v |-> x[2]]) ELSE seq
  IN [b1 EXCEPT ![userKey].honey = push(@, body.honey),
                ![userKey].pollen = push(@, body.pollen)]

\* the guard of the variant's 400 (the requests carry no tokens and no buffs)
HistNoMetricsProvided(body) == ~IsNumber(body.honey) /\ ~IsNumber(body.pollen)

\* INSERT IGNORE INTO users (user_key) VALUES (?)
HistEnsureUser(db, userKey) ==
  IF userKey \in DOMAIN db.dbUsers THEN db
  ELSE [db EXCEPT !.dbUsers = Put(@, userKey, [last_activity |-> 0, total_honey |-> 0])]

HistInserts(userKey, body, t) ==
  LET one(metric, x) ==
        IF IsFiniteNumber(x)
        THEN <<[user_key |-> userKey, metric |-> metric, t |-> t, v |-> x[2]]>> ELSE <<>>
  IN one("honey", body.honey) \o one("pollen", body.pollen)

\* UPDATE users SET total_honey = total_honey + ?, last_activity = ? (or
\* last_activity alone when honeyDelta is not positive)
HistUpdateUser(db, userKey, body, t) ==
  LET honeyDelta == IF IsFiniteNumber(body.honey) THEN body.honey[2] ELSE 0
  IN IF userKey \notin DOMAIN db.dbUsers THEN db
     ELSE [db EXCEPT !.dbUsers[userKey].last_activity = t,
                     !.dbUsers[userKey].total_honey =
                        IF honeyDelta > 0 THEN @ + honeyDelta ELSE @]

HistIngestRejected(userKey, body) ==
  LET t == EventTime(body, now)
  IN /\ Len(handlers) < MaxIngests
     /\ HistNoMetricsProvided(body)
     /\ handlers' = Append(handlers, Request(userKey, body, t, "done", <<>>, "rejected"))
     /\ resp' = IngestResp(userKey, body, t, 400, "", <<>>)
     /\ UNCHANGED <<fixedVars, now, storeVars, ackLog>>

HistIngestMemory(userKey, body) ==
  LET t == EventTime(body, now)
  IN /\ Len(handlers) < MaxIngests
     /\ ~HistNoMetricsProvided(body)
     /\ ~USE_DB
     /\ samples' = HistWriteMemory(samples, userKey, body, t)
     /\ resp' = IngestResp(userKey, body, t, 200, "memory", <<"writeMemory">>)
     /\ handlers' = Append(handlers, Request(userKey, body, t, "done", <<>>, "memory"))
     /\ ackLog' = Append(ackLog, Len(handlers) + 1)
     /\ UNCHANGED <<fixedVars, now, inherited, publicIdToUserKey, memorySessions,
                    dbUsers, dbSamples, dbSessions>>

\* USE_DB: the handler awaits ensureUser()
HistIngestDurable(userKey, body) ==
  /\ Len(handlers) < MaxIngests
  /\ ~HistNoMetricsProvided(body)
  /\ USE_DB
  /\ handlers' = Append(handlers, Request(userKey, body, EventTime(body, now),
                                          "ensureUser", <<>>, ""))
  /\ resp' = NoResp
  /\ UNCHANGED <<fixedVars, now, storeVars, ackLog>>

HistEnsureUserReturns(i) ==
  LET h == handlers[i]
  IN /\ h.pc = "ensureUser"
     /\ SetDb(HistEnsureUser(Db, h.userKey))
     /\ Continue(i, "insert", Append(h.tr, "ensureUser"))
     /\ UNCHANGED <<fixedVars, now, samples, inherited, publicIdToUserKey, memorySessions>>

HistInsertSamplesReturns(i) ==
  LET h == handlers[i]
  IN /\ h.pc = "insert"
     /\ SetDb(InsertSamples(Db, HistInserts(h.userKey, h.body, h.t)))
     /\ Continue(i, "update", Append(h.tr, "insert"))
     /\ UNCHANGED <<fixedVars, now, samples, inherited, publicIdToUserKey, memorySessions>>

\* the UPDATE returns; no tokens and no buffs to insert: mode "mysql"
HistUpdateUserReturns(i) ==
  LET h == handlers[i]
  IN /\ h.pc = "update"
     /\ SetDb(HistUpdateUser(Db, h.userKey, h.body, h.t))
     /\ RespondMysql(i, Append(h.tr, "update"))
     /\ UNCHANGED <<fixedVars, now, samples, inherited, publicIdToUserKey, memorySessions>>

\* a durable call raises: the catch writes to memory, mode "memory-fallback"
HistDurableCallRaises(i) ==
  LET h == handlers[i]
  IN /\ h.pc \in {"ensureUser", "insert", "update"}
     /\ samples' = HistWriteMemory(samples, h.userKey, h.body, h.t)
     /\ resp' = IngestResp(h.userKey, h.body, h.t, 200, "memory-fallback",
                           h.tr \o <<Raised(h.pc), "writeMemory">>)
     /\ handlers' = [handlers EXCEPT ![i] = Finished(h, "memory-fallback")]
     /\ ackLog' = Append(ackLog, i)
     /\ UNCHANGED <<fixedVars, now, inherited, publicIdToUserKey, memorySessions,
                    dbUsers, dbSamples, dbSessions>>

ACTIVE_WINDOW == 604800       \* 86400 * 7

\* SUM(v) of the user's honey samples with t >= cutoff
DailyHoney(db, userKey, cutoff) ==
  SumV(PointsOf(SelectSamples(db, userKey, cutoff), "honey"))

\* a sort that leaves the entries as they are
Unsorted(entries) == entries

\* the pairs [key, row] of `entries` in descending order of key, ties in the
\* order given
RECURSIVE SortDesc(_)
SortDesc(entries) ==
  IF entries = <<>> THEN <<>>
  ELSE LET rest == SortDesc(Tail(entries))
           e == Head(entries)
           before == SelectSeq(rest, LAMBDA x : x.key > e.key)
           after == SelectSeq(rest, LAMBDA x : x.key <= e.key)
       IN before \o <<e>> \o after

RECURSIVE SeqOf(_)
SeqOf(S) == IF S = {} THEN <<>> ELSE LET x == CHOOSE y \in S : TRUE
                                     IN <<x>> \o SeqOf(S \ {x})

LeaderboardResp(userKey, status, raised, limit, rows) ==
  [NoResp EXCEPT !.op = "leaderboard", !.userKey = userKey, !.status = status,
                 !.clock = now, !.served = "db", !.raised = raised, !.limit = limit,
                 !.rows = rows]

NaN == <<"nan", 0>>

RECURSIVE DigitPrefix(_)
DigitPrefix(cs) ==
  IF cs # <<>> /\ Head(cs) \in Digits THEN <<Head(cs)>> \o DigitPrefix(Tail(cs)) ELSE <<>>

\* parseInt(text): an optional sign, then the longest prefix of decimal
\* digits; NaN without a digit (and for an absent parameter)
parseInt(text) ==
  LET negative == text # <<>> /\ Head(text) = "-"
      digits == DigitPrefix(IF negative THEN Tail(text) ELSE text)
  IN IF text = AbsentPeriod \/ digits = <<>> THEN NaN
     ELSE Num(IF negative THEN 0 - ToNumber(digits) ELSE ToNumber(digits))

DEFAULT_LIMIT == 25
MAX_LIMIT == 100

\* Math.min(parseInt(req.query.limit) || 25, 100)
LeaderboardLimit(text) ==
  LET parsed == parseInt(text)
  IN Min(IF parsed = NaN \/ parsed = Num(0) THEN DEFAULT_LIMIT ELSE parsed[2], MAX_LIMIT)

\* the limit parameters a reader sends
LimitParamsOf(w) ==
  IF w = "limits"
  THEN {AbsentPeriod, <<"0">>, <<"1">>, <<"-", "5">>, <<"1", "5", "0">>, <<"x">>}
  ELSE IF w = "leaderboard" THEN {AbsentPeriod, <<"1">>}
  ELSE {AbsentPeriod}

\* GET /api/leaderboard: 501 without the database, 500 when a query raises,
\* else the first `limit` users active in the last 7 days by total honey,
\* listed by daily honey descending.  The database refuses a negative LIMIT.
Leaderboard(userKey, limitParam, raises) ==
  LET active == {u \in DOMAIN dbUsers : dbUsers[u].last_activity > now - ACTIVE_WINDOW}
      found == SeqOf(active)
      limit == LeaderboardLimit(limitParam)
      ranked == SortDesc([k \in 1 .. Len(found) |->
                            [key |-> dbUsers[found[k]].total_honey, row |-> found[k]]])
      users == SubSeq(ranked, 1, Min(Len(ranked), Max(limit, 0)))
      entry(u) == [user_key |-> u,
                   total_honey |-> dbUsers[u].total_honey,
                   daily_honey |-> DailyHoney(Db, u, now - DAY),
                   last_activity |-> dbUsers[u].last_activity]
      leaderboard == SortDesc([k \in 1 .. Len(users) |->
                                 [key |-> entry(users[k].row).daily_honey,
                                  row |-> entry(users[k].row)]])
  IN /\ (raises => USE_DB)
     /\ (limit < 0 => raises \/ ~USE_DB)
     /\ resp' = IF ~USE_DB THEN LeaderboardResp(userKey, 501, FALSE, 0, <<>>)
                ELSE IF raises THEN LeaderboardResp(userKey, 500, TRUE, limit, <<>>)
                ELSE LeaderboardResp(userKey, 200, FALSE, limit,
                                     [k \in 1 .. Len(leaderboard) |-> leaderboard[k].row])
     /\ UNCHANGED <<fixedVars, now, storeVars, handlers, ackLog>>

\* the server's time when the first request arrives
StartOf(w) == IF w = "history" THEN 1500 ELSE 2692000

InitHistory ==
  /\ tsInput = AbsentPeriod
  /\ tsResult = -1
  /\ USE_DB \in BOOLEAN
  /\ workload \in {"history", "leaderboard", "limits"}
  /\ now = StartOf(workload)
  /\ InitStores

NextHistory ==
  \/ \E userKey \in UsersOf(workload) : \E body \in BodiesFor(workload, userKey) :
       HistIngestRejected(userKey, body)
  \/ \E userKey \in UsersOf(workload) : \E body \in BodiesFor(workload, userKey) :
       HistIngestMemory(userKey, body)
  \/ \E userKey \in UsersOf(workload) : \E body \in BodiesFor(workload, userKey) :
       HistIngestDurable(userKey, body)
  \/ \E i \in 1 .. Len(handlers) : HistEnsureUserReturns(i)
  \/ \E i \in 1 .. Len(handlers) : HistInsertSamplesReturns(i)
  \/ \E i \in 1 .. Len(handlers) : HistUpdateUserReturns(i)
  \/ \E i \in 1 .. Len(handlers) : HistDurableCallRaises(i)
  \/ \E userKey \in UsersOf(workload), day \in DaysOf(workload), raises \in BOOLEAN :
       History(userKey, day, raises)
  \/ \E userKey \in UsersOf(workload), limitParam \in LimitParamsOf(workload),
        raises \in BOOLEAN :
       Leaderboard(userKey, limitParam, raises)
  \/ Tick

SpecHistory == InitHistory /\ [][NextHistory]_vars

----------------------------------------------------------------------------
(* Config sharing: POST /api/configs and GET /api/configs/:key.  A config  *)
(* key is a sequence of characters; a config is <<"obj", n>> (an object),  *)
(* <<"big", n>> (an object whose JSON is over CONFIG_JSON_LIMIT) or        *)
(* <<"undef", 0>> (no config in the body).                                 *)

MaxConfigRequests == 3

KEY_MIN == 10
KEY_MAX == 32

KeyChars == {"A", "B", "K", "0", "1", "[", "]", "-"}

\* configKeyRegex.test(key): /^[A-Z0-9\[\]-]{10,32}$/
configKeyRegexTest(key) ==
  /\ Len(key) >= KEY_MIN
  /\ Len(key) <= KEY_MAX
  /\ \A i \in 1 .. Len(key) : key[i] \in KeyChars

\* a key the regex accepts and one it refuses
SharedKey == <<"K", "-", "A", "B", "0", "1", "[", "]", "A", "A">>
ShortKey == <<"K", "-", "A">>

\* what generateConfigKey() can return: 20 characters of KEY_ALPHABET
GeneratedKeys == {[i \in 1 .. 20 |-> "0"]}

\* a key of the path that names a property every object inherits
InheritedKey == <<"c", "o", "n", "s", "t", "r", "u", "c", "t", "o", "r">>

NoConfig == <<"undef", 0>>

\* JSON.stringify(config) and JSON.parse(row.payload)
Stringify(config) == <<"json", config[2]>>
Parse(payload) == IF payload[1] = "json" THEN <<"obj", payload[2]>> ELSE <<"obj", 0>>

\* key && configs[key]: the entry, the inherited property, or undefined
NoEntry == [kind |-> "undefined"]
InheritedEntry == [kind |-> "inherited"]
ConfigEntry(key) ==
  IF key \in DOMAIN configs THEN [kind |-> "entry", record |-> configs[key]]
  ELSE IF key = InheritedKey THEN InheritedEntry
  ELSE NoEntry

ConfigRequest(kind, key, config, owner, pc, entry, seen) ==
  [kind |-> kind, key |-> key, config |-> config, owner |-> owner, at |-> now,
   pc |-> pc, mode |-> "", entry |-> entry, seen |-> seen]

ConfigPostResp(userKey, status, key, config, mode) ==
  [NoResp EXCEPT !.op = "configPost", !.userKey = userKey, !.status = status,
                 !.key = key, !.config = config, !.mode = mode, !.clock = now]

\* 400 without a config object, 413 when its JSON is too large
ConfigPostRejected(userKey, config) ==
  /\ config[1] # "obj"
  /\ resp' = ConfigPostResp(userKey, IF config[1] = "big" THEN 413 ELSE 400,
                            <<>>, config, "")
  /\ UNCHANGED <<configuration, now, storeVars, handlers, ackLog, configVars, controlVars>>

\* the key of the body when the regex accepts it, else a generated one
ConfigKeysFor(bodyKey) ==
  IF configKeyRegexTest(bodyKey) THEN {bodyKey} ELSE GeneratedKeys

\* configs[key] = entry, then the answer (memory mode) or the REPLACE
ConfigPost(userKey, bodyKey, config) ==
  \E key \in ConfigKeysFor(bodyKey) :
     LET entry == [config |-> config, owner |-> userKey, at |-> now]
         n == Len(configRequests) + 1
     IN /\ Len(configRequests) < MaxConfigRequests
        /\ config[1] = "obj"
        /\ configs' = Put(configs, key, entry)
        /\ IF USE_DB
           THEN /\ configRequests' =
                     Append(configRequests,
                            ConfigRequest("post", key, config, userKey, "replace", NoEntry, 0))
                /\ resp' = NoResp
                /\ UNCHANGED configAcks
           ELSE /\ configRequests' =
                     Append(configRequests,
                            [ConfigRequest("post", key, config, userKey, "done", NoEntry, 0)
                               EXCEPT !.mode = "memory"])
                /\ resp' = ConfigPostResp(userKey, 200, key, config, "memory")
                /\ configAcks' = Append(configAcks, n)
        /\ UNCHANGED <<configuration, now, storeVars, handlers, ackLog, dbConfigs,
                       controlVars>>

\* REPLACE INTO configs returns: mode "mysql"
ConfigReplaceReturns(i) ==
  LET r == configRequests[i]
  IN /\ r.kind = "post"
     /\ r.pc = "replace"
     /\ dbConfigs' = Put(dbConfigs, r.key, [user_key |-> r.owner,
                                            payload |-> Stringify(r.config), at |-> r.at])
     /\ configRequests' = [configRequests EXCEPT ![i].pc = "done", ![i].mode = "mysql"]
     /\ configAcks' = Append(configAcks, i)
     /\ resp' = ConfigPostResp(r.owner, 200, r.key, r.config, "mysql")
     /\ UNCHANGED <<configuration, now, storeVars, handlers, ackLog, configs, controlVars>>

\* REPLACE INTO configs raises: mode "memory-fallback"
ConfigReplaceRaises(i) ==
  LET r == configRequests[i]
  IN /\ r.kind = "post"
     /\ r.pc = "replace"
     /\ configRequests' = [configRequests EXCEPT ![i].pc = "done",
                                                  ![i].mode = "memory-fallback"]
     /\ configAcks' = Append(configAcks, i)
     /\ resp' = ConfigPostResp(r.owner, 200, r.key, r.config, "memory-fallback")
     /\ UNCHANGED <<configuration, now, storeVars, handlers, ackLog, configs, dbConfigs,
                    controlVars>>

\* respond(record): 404 without a record, else config, owner and at; an
\* inherited property has none of the three fields
ConfigGetResp(key, entry, seen) ==
  LET base == [NoResp EXCEPT !.op = "configGet", !.key = key, !.clock = now,
                             !.seen = seen]
  IN CASE entry.kind = "undefined" -> [base EXCEPT !.status = 404]
       [] entry.kind = "inherited" -> [base EXCEPT !.status = 200]
       [] entry.kind = "entry" ->
            [base EXCEPT !.status = 200, !.config = entry.record.config,
                         !.owner = entry.record.owner]

\* GET in memory mode
ConfigGetMemory(key) ==
  /\ ~USE_DB
  /\ resp' = ConfigGetResp(key, ConfigEntry(key), Len(configAcks))
  /\ UNCHANGED <<configuration, now, storeVars, handlers, ackLog, configVars, controlVars>>

\* GET with the database: `entry` is read, then the SELECT is awaited
ConfigGetDurable(key) ==
  /\ USE_DB
  /\ Len(configRequests) < MaxConfigRequests
  /\ configRequests' =
       Append(configRequests,
              ConfigRequest("get", key, NoConfig, "", "select", ConfigEntry(key),
                            Len(configAcks)))
  /\ resp' = NoResp
  /\ UNCHANGED <<configuration, now, storeVars, handlers, ackLog, configs, dbConfigs,
                 configAcks, controlVars>>

\* the SELECT returns: the row when there is one, else the entry read before
ConfigSelectReturns(i) ==
  LET r == configRequests[i]
      found == IF r.key \in DOMAIN dbConfigs
               THEN [kind |-> "entry",
                     record |-> [config |-> Parse(dbConfigs[r.key].payload),
                                 owner |-> dbConfigs[r.key].user_key,
                                 at |-> dbConfigs[r.key].at]]
               ELSE r.entry
  IN /\ r.kind = "get"
     /\ r.pc = "select"
     /\ configRequests' = [configRequests EXCEPT ![i].pc = "done"]
     /\ resp' = ConfigGetResp(r.key, found, r.seen)
     /\ UNCHANGED <<configuration, now, storeVars, handlers, ackLog, configs, dbConfigs,
                    configAcks, controlVars>>

\* the SELECT raises: the entry read before
ConfigSelectRaises(i) ==
  LET r == configRequests[i]
  IN /\ r.kind = "get"
     /\ r.pc = "select"
     /\ configRequests' = [configRequests EXCEPT ![i].pc = "done"]
     /\ resp' = [ConfigGetResp(r.key, r.entry, r.seen) EXCEPT !.raised = TRUE]
     /\ UNCHANGED <<configuration, now, storeVars, handlers, ackLog, configs, dbConfigs,
                    configAcks, controlVars>>

ConfigUsers == {"u1"}
ConfigBodies == {<<"obj", 1>>, <<"obj", 2>>, <<"big", 3>>, NoConfig}
ConfigBodyKeys == {SharedKey, ShortKey}
ConfigPaths == {SharedKey, InheritedKey} \cup GeneratedKeys

InitConfigs ==
  /\ tsInput = AbsentPeriod
  /\ tsResult = -1
  /\ USE_DB \in BOOLEAN
  /\ workload = "configs"
  /\ now = 1500
  /\ InitStores

NextConfigs ==
  \/ \E userKey \in ConfigUsers, config \in ConfigBodies : ConfigPostRejected(userKey, config)
  \/ \E userKey \in ConfigUsers, bodyKey \in ConfigBodyKeys, config \in ConfigBodies :
       ConfigPost(userKey, bodyKey, config)
  \/ \E i \in 1 .. Len(configRequests) : ConfigReplaceReturns(i)
  \/ \E i \in 1 .. Len(configRequests) : ConfigReplaceRaises(i)
  \/ \E key \in ConfigPaths : ConfigGetMemory(key)
  \/ \E key \in ConfigPaths : ConfigGetDurable(key)
  \/ \E i \in 1 .. Len(configRequests) : ConfigSelectReturns(i)
  \/ \E i \in 1 .. Len(configRequests) : ConfigSelectRaises(i)

SpecConfigs == InitConfigs /\ [][NextConfigs]_vars

----------------------------------------------------------------------------
(* The online roster (GET /api/players) and the statistics of a player     *)
(* named by a public id (GET /api/player/:publicId/stats).                 *)

ONLINE_TIMEOUT == 120

Alphabet == <<"a", "b", "c", "d", "e", "f", "g", "h", "i", "j", "k", "l", "m",
              "n", "o", "p", "q", "r", "s", "t", "u", "v", "w", "x", "y", "z">>
Capitals == <<"A", "B", "C", "D", "E", "F", "G", "H", "I", "J", "K", "L", "M",
              "N", "O", "P", "Q", "R", "S", "T", "U", "V", "W", "X", "Y", "Z">>

\* name.toLowerCase(), a character at a time
toLowerCase(name) ==
  [i \in 1 .. Len(name) |->
     IF \E k \in 1 .. Len(Capitals) : Capitals[k] = name[i]
     THEN Alphabet[CHOOSE k \in 1 .. Len(Capitals) : Capitals[k] = name[i]]
     ELSE name[i]]

\* the place of a lower-case letter in the collation; 0 for any other character
LetterRank(c) ==
  IF \E k \in 1 .. Len(Alphabet) : Alphabet[k] = c
  THEN CHOOSE k \in 1 .. Len(Alphabet) : Alphabet[k] = c
  ELSE 0

RECURSIVE localeCompare(_, _)
\* nameA.localeCompare(nameB) for lower-case names: -1, 0 or 1
localeCompare(a, b) ==
  IF a = <<>> THEN (IF b = <<>> THEN 0 ELSE -1)
  ELSE IF b = <<>> THEN 1
  ELSE IF LetterRank(Head(a)) < LetterRank(Head(b)) THEN -1
  ELSE IF LetterRank(Head(a)) > LetterRank(Head(b)) THEN 1
  ELSE localeCompare(Tail(a), Tail(b))

RECURSIVE InsertByName(_, _)
InsertByName(sorted, e) ==
  IF sorted = <<>> THEN <<e>>
  ELSE IF localeCompare(toLowerCase(Head(sorted).username), toLowerCase(e.username)) <= 0
       THEN <<Head(sorted)>> \o InsertByName(Tail(sorted), e)
       ELSE <<e>> \o sorted

RECURSIVE SortByName(_)
\* list.sort by lower-cased username; the sort is stable
SortByName(list) ==
  IF list = <<>> THEN <<>>
  ELSE InsertByName(SortByName(SubSeq(list, 1, Len(list) - 1)), list[Len(list)])

\* an entry of the roster; username || "Player"
RosterEntry(id, username, lastSeen, currentHoney) ==
  [id |-> id, username |-> IF username = NoName THEN Player ELSE username,
   lastSeen |-> lastSeen, currentHoney |-> currentHoney]

PlayersResp(status, raised, list) ==
  [NoResp EXCEPT !.op = "players", !.status = status, !.clock = now,
                 !.served = IF USE_DB THEN "db" ELSE "memory",
                 !.raised = raised, !.rows = list]

\* the memory branch: the sessions seen in the last ONLINE_TIMEOUT seconds,
\* then the buckets of the users without such a session.  (Among entries of
\* one name the model leaves the order of enumeration open.)
MemoryRoster ==
  LET online == {k \in DOMAIN memorySessions :
                   /\ memorySessions[k].lastSeen # 0
                   /\ now - memorySessions[k].lastSeen <= ONLINE_TIMEOUT}
      seenKeys == {k[1] : k \in online}
      buckets == {u \in DOMAIN samples :
                    /\ u \notin seenKeys
                    /\ samples[u].lastSeen # 0
                    /\ now - samples[u].lastSeen <= ONLINE_TIMEOUT}
      sessionList == SeqOf(online)
      bucketList == SeqOf(buckets)
  IN [i \in 1 .. Len(sessionList) |->
        LET session == memorySessions[sessionList[i]]
        IN RosterEntry(session.publicId, session.username, session.lastSeen,
                       session.currentHoney)]
     \o [i \in 1 .. Len(bucketList) |->
           LET bucket == samples[bucketList[i]]
           IN RosterEntry(bucket.publicId, bucket.username, bucket.lastSeen,
                          bucket.currentHoney)]

PlayersMemory ==
  /\ ~USE_DB
  /\ resp' = PlayersResp(200, FALSE, SortByName(MemoryRoster))
  /\ UNCHANGED <<fixedVars, now, storeVars, handlers, ackLog>>

RECURSIVE CacheAll(_, _)
\* cachePublicMapping for every row of a list of [id, userKey, username]
CacheAll(m, found) ==
  IF found = <<>> THEN m
  ELSE CacheAll(cachePublicMapping(m, Head(found).id, Head(found).userKey,
                                   Head(found).username), Tail(found))

\* the durable branch: both queries return
PlayersDurable ==
  LET cutoff == now - ONLINE_TIMEOUT
      sessionRows == SeqOf({k \in DOMAIN dbSessions : dbSessions[k].last_seen >= cutoff})
      seenKeys == {sessionRows[i][1] : i \in 1 .. Len(sessionRows)}
      rows == SeqOf({u \in DOMAIN dbUsers :
                       dbUsers[u].last_activity >= cutoff /\ u \notin seenKeys})
      list == [i \in 1 .. Len(sessionRows) |->
                 LET row == dbSessions[sessionRows[i]]
                 IN RosterEntry(row.session_public_id, row.username,
                                IF row.last_seen # 0 THEN row.last_seen ELSE now,
                                row.current_honey)]
              \o [i \in 1 .. Len(rows) |->
                    LET row == dbUsers[rows[i]]
                    IN RosterEntry(row.public_id, row.username,
                                   IF row.last_activity # 0 THEN row.last_activity ELSE now,
                                   row.current_honey)]
      found == [i \in 1 .. Len(sessionRows) |->
                  [id |-> dbSessions[sessionRows[i]].session_public_id,
                   userKey |-> sessionRows[i][1],
                   username |-> dbSessions[sessionRows[i]].username]]
               \o [i \in 1 .. Len(rows) |->
                     [id |-> dbUsers[rows[i]].public_id, userKey |-> rows[i],
                      username |-> dbUsers[rows[i]].username]]
  IN /\ USE_DB
     /\ SetMem(CacheAll(Mem, found))
     /\ resp' = PlayersResp(200, FALSE, SortByName(list))
     /\ UNCHANGED <<fixedVars, now, dbUsers, dbSamples, dbSessions, handlers, ackLog>>

\* a query of the durable branch raises: { players: [] }
PlayersDurableRaises ==
  /\ USE_DB
  /\ resp' = PlayersResp(200, TRUE, <<>>)
  /\ UNCHANGED <<fixedVars, now, storeVars, handlers, ackLog>>

\* resolveUserKeyFromPublicId without the database:
\* [mem |-> the memory state after it, found, userKey]
NotResolved(m) == [mem |-> m, found |-> FALSE, userKey |-> ""]

resolveFromMemory(m, publicId) ==
  IF publicId \in DOMAIN m.publicIdToUserKey
  THEN [mem |-> m, found |-> TRUE, userKey |-> m.publicIdToUserKey[publicId].userKey]
  ELSE IF \E u \in DOMAIN m.samples : m.samples[u].publicId = publicId
  THEN LET u == CHOOSE u \in DOMAIN m.samples : m.samples[u].publicId = publicId
       IN [mem |-> cachePublicMapping(m, publicId, u, m.samples[u].username),
           found |-> TRUE, userKey |-> u]
  ELSE IF \E k \in DOMAIN m.memorySessions : m.memorySessions[k].publicId = publicId
  THEN LET k == CHOOSE k \in DOMAIN m.memorySessions :
                  m.memorySessions[k].publicId = publicId
       IN [mem |-> cachePublicMapping(m, publicId, k[1], m.memorySessions[k].username),
           found |-> TRUE, userKey |-> k[1]]
  ELSE NotResolved(m)

\* resolveUserKeyFromPublicId with the database, when its queries return
resolveFromDb(m, db, publicId) ==
  IF publicId \in DOMAIN m.publicIdToUserKey
  THEN [mem |-> m, found |-> TRUE, userKey |-> m.publicIdToUserKey[publicId].userKey]
  ELSE IF \E u \in DOMAIN db.dbUsers : db.dbUsers[u].public_id = publicId
  THEN LET u == CHOOSE u \in DOMAIN db.dbUsers : db.dbUsers[u].public_id = publicId
       IN [mem |-> cachePublicMapping(m, publicId, u, db.dbUsers[u].username),
           found |-> TRUE, userKey |-> u]
  ELSE IF \E k \in DOMAIN db.dbSessions : db.dbSessions[k].session_public_id = publicId
  THEN LET k == CHOOSE k \in DOMAIN db.dbSessions :
                  db.dbSessions[k].session_public_id = publicId
       IN [mem |-> cachePublicMapping(m, publicId, k[1], db.dbSessions[k].username),
           found |-> TRUE, userKey |-> k[1]]
  ELSE NotResolved(m)

PlayerStatsResp(publicId, resolved, cutoff, status, served, raised, data) ==
  [NoResp EXCEPT !.op = "playerStats", !.key = publicId, !.resolved = resolved,
                 !.status = status, !.clock = now, !.cutoff = cutoff,
                 !.served = served, !.raised = raised, !.data = data]

\* 404 when the public id resolves to nobody, else the statistics of the
\* resolved user key from memory
PlayerStatsFromMemory(r, publicId, period, raised) ==
  LET cutoff == now - StatsPeriodSec(period)
      c == collectMemoryStats(r.mem, r.userKey, cutoff)
  IN IF ~r.found
     THEN /\ SetMem(r.mem)
          /\ resp' = PlayerStatsResp(publicId, "", cutoff, 404, "memory", raised, NoData)
     ELSE /\ SetMem(c.mem)
          /\ resp' = PlayerStatsResp(publicId, r.userKey, cutoff,
                                     IF c.threw THEN 0 ELSE 200, "memory", raised,
                                     IF c.threw THEN NoData ELSE c.data)

PlayerStatsMemory(publicId, period) ==
  /\ ~USE_DB
  /\ PlayerStatsFromMemory(resolveFromMemory(Mem, publicId), publicId, period, FALSE)
  /\ UNCHANGED <<fixedVars, now, dbUsers, dbSamples, dbSessions, handlers, ackLog>>

\* with the database: collectDbStats returns, or raises and the catch
\* answers from memory
PlayerStatsDurable(publicId, period, raises) ==
  LET cutoff == now - StatsPeriodSec(period)
      r == resolveFromDb(Mem, Db, publicId)
  IN /\ USE_DB
     /\ IF raises \/ ~r.found
        THEN PlayerStatsFromMemory(r, publicId, period, raises)
        ELSE /\ SetMem(cachePublicMapping(r.mem, DbPublicId(Db, r.userKey), r.userKey,
                                          DbUsername(Db, r.userKey)))
             /\ resp' = PlayerStatsResp(publicId, r.userKey, cutoff, 200, "db", FALSE,
                                        collectDbStats(Db, r.userKey, cutoff))
     /\ UNCHANGED <<fixedVars, now, dbUsers, dbSamples, dbSessions, handlers, ackLog>>

\* a query of resolveUserKeyFromPublicId raises (the cache had no entry):
\* the handler's promise is rejected and no response is sent
PlayerStatsResolveRaises(publicId) ==
  /\ USE_DB
  /\ publicId \notin DOMAIN publicIdToUserKey
  /\ resp' = PlayerStatsResp(publicId, "", 0, 0, "db", TRUE, NoData)
  /\ UNCHANGED <<fixedVars, now, storeVars, handlers, ackLog>>

RosterPlayerIds == {7}

\* the public ids a viewer asks for: one that belongs to nobody, and in the
\* "resolve" workload those of the users and of their sessions
PublicIdsOf(w) ==
  IF w = "resolve"
  THEN {getPublicId(u) : u \in UsersOf(w)}
         \cup {getSessionPublicId(u, p) : u \in UsersOf(w), p \in RosterPlayerIds}
         \cup {<<"pid", "nobody", 0>>}
  ELSE {<<"pid", "nobody", 0>>}

InitRoster ==
  /\ tsInput = AbsentPeriod
  /\ tsResult = -1
  /\ USE_DB \in BOOLEAN
  /\ workload \in {"roster", "resolve"}
  /\ now = 1500
  /\ InitStores

NextRoster ==
  \/ \E userKey \in UsersOf(workload), body \in BodiesOf(workload) :
       IngestRejected(userKey, body)
  \/ \E userKey \in UsersOf(workload), body \in BodiesOf(workload) :
       IngestMemory(userKey, body)
  \/ \E userKey \in UsersOf(workload), body \in BodiesOf(workload) :
       IngestDurable(userKey, body)
  \/ \E i \in 1 .. Len(handlers) : EnsureUserReturns(i)
  \/ \E i \in 1 .. Len(handlers) : InsertSamplesReturns(i)
  \/ \E i \in 1 .. Len(handlers) : UpdateUserReturns(i)
  \/ \E i \in 1 .. Len(handlers) : RecordDbSessionReturns(i)
  \/ \E i \in 1 .. Len(handlers) : RecordDbSessionRaises(i)
  \/ \E i \in 1 .. Len(handlers) : DurableCallRaises(i)
  \/ PlayersMemory
  \/ PlayersDurable
  \/ PlayersDurableRaises
  \/ \E publicId \in PublicIdsOf(workload), period \in PeriodsOf(workload) :
       PlayerStatsMemory(publicId, period)
  \/ \E publicId \in PublicIdsOf(workload), period \in PeriodsOf(workload),
        raises \in BOOLEAN :
       PlayerStatsDurable(publicId, period, raises)
  \/ \E publicId \in PublicIdsOf(workload) : PlayerStatsResolveRaises(publicId)
  \/ Tick

SpecRoster == InitRoster /\ [][NextRoster]_vars

\* one step of the async block of the i-th ingest: the durable call it awaits
\* returns or raises
HandlerStep(i) ==
  /\ i <= Len(handlers)
  /\ \/ EnsureUserReturns(i)
     \/ InsertSamplesReturns(i)
     \/ UpdateUserReturns(i)
     \/ RecordDbSessionReturns(i)
     \/ RecordDbSessionRaises(i)
     \/ DurableCallRaises(i)

\* every awaited durable call completes or raises: no handler waits for ever
FairRoster == SpecRoster /\ \A i \in 1 .. MaxIngests : WF_vars(HandlerStep(i))

----------------------------------------------------------------------------
(* The tokens-and-buffs variant of the server (src/unnamed/part_001), in   *)
(* memory-only mode.  Its bucket holds a series per buff name; the bodies  *)
(* of this workload carry buffs only, so the honey, pollen, backpack,      *)
(* tokens and sources series of the bucket stay empty.                     *)

STORE_CAP == 400
RESPONSE_CAP == 200

\* slice(-n)
Slice(seq, n) ==
  IF Len(seq) > n THEN SubSeq(seq, Len(seq) - n + 1, Len(seq)) ELSE seq

BuffsEmptyBucket ==
  [honey |-> <<>>, pollen |-> <<>>, backpack |-> <<>>, tokens |-> <<>>,
   buffs |-> <<>>, sources |-> [src \in {"convert", "gather", "token", "other"} |-> <<>>],
   currentHoney |-> 0]

BuffsGetBucket(buckets, userKey) ==
  IF userKey \in DOMAIN buckets THEN buckets ELSE Put(buckets, userKey, BuffsEmptyBucket)

\* for (const name in buffs): the series is created, a number is pushed and
\* the series is cut to its last STORE_CAP points
RECURSIVE PushBuffs(_, _, _, _)
PushBuffs(series, buffs, names, t) ==
  IF names = {} THEN series
  ELSE LET name == CHOOSE n \in names : TRUE
           old == IF name \in DOMAIN series THEN series[name] ELSE <<>>
           new == IF IsNumber(buffs[name])
                  THEN Slice(Append(old, [t |-> t, v |-> buffs[name][2]]), STORE_CAP)
                  ELSE old
       IN PushBuffs(Put(series, name, new), buffs, names \ {name}, t)

\* writeMemory of the variant: the pushes, then the 30-day prune
BuffsWriteMemory(buckets, userKey, buffs, t, clock) ==
  LET b1 == BuffsGetBucket(buckets, userKey)
      pushed == PushBuffs(b1[userKey].buffs, buffs, DOMAIN buffs, t)
      cutoff == clock - 30 * DAY
  IN [b1 EXCEPT ![userKey].buffs =
        [name \in DOMAIN pushed |-> SelectSeq(pushed[name], LAMBDA p : p.t >= cutoff)]]

\* POST /api/ingest with a buffs object, !USE_DB
BuffsIngest(userKey, buffs) ==
  /\ ~USE_DB
  /\ samples' = BuffsWriteMemory(samples, userKey, buffs, now, now)
  /\ resp' = [NoResp EXCEPT !.op = "ingest", !.userKey = userKey, !.status = 200,
                            !.mode = "memory", !.t = now, !.clock = now]
  /\ UNCHANGED <<fixedVars, now, inherited, publicIdToUserKey, memorySessions,
                 dbUsers, dbSamples, dbSessions, handlers, ackLog>>

\* GET /api/stats, !USE_DB: respondFromMemory answers with the last
\* RESPONSE_CAP points of each buff within the period
BuffsStats(userKey, period) ==
  LET cutoff == now - toSeconds(period)
      b1 == BuffsGetBucket(samples, userKey)
      buffs == [name \in DOMAIN b1[userKey].buffs |->
                  Slice(SelectSeq(b1[userKey].buffs[name], LAMBDA p : p.t >= cutoff),
                        RESPONSE_CAP)]
  IN /\ ~USE_DB
     /\ samples' = b1
     /\ resp' = [NoResp EXCEPT !.op = "stats", !.userKey = userKey, !.status = 200,
                               !.served = "memory", !.clock = now, !.cutoff = cutoff,
                               !.data = [buffs |-> buffs]]
     /\ UNCHANGED <<fixedVars, now, inherited, publicIdToUserKey, memorySessions,
                    dbUsers, dbSamples, dbSessions, handlers, ackLog>>

BuffsClock == {1501}

BuffsTick ==
  /\ \E c \in BuffsClock : c > now /\ now' = c
  /\ resp' = NoResp
  /\ UNCHANGED <<fixedVars, storeVars, handlers, ackLog>>

BuffsBodies == {[haste |-> Num(1)]}

InitBuffs ==
  /\ tsInput = AbsentPeriod
  /\ tsResult = -1
  /\ USE_DB = FALSE
  /\ workload = "buffs"
  /\ now = 1500
  /\ InitStores

NextBuffs ==
  \/ \E buffs \in BuffsBodies : BuffsIngest("u1", buffs)
  \/ BuffsStats("u1", AbsentPeriod)
  \/ BuffsTick

SpecBuffs == InitBuffs /\ [][NextBuffs]_vars

----------------------------------------------------------------------------
(* The command mailbox: POST and GET /api/controls/commands.  A command is *)
(* [id, at]; the ids number the commands in the order they were posted.    *)
(* controlCommands holds the own properties of the object (each an array), *)
(* controlProto its prototype: Object.prototype, or the array that an      *)
(* assignment to controlCommands["__proto__"] put in its place.            *)

COMMAND_LIMIT == 100
MaxCommandPosts == 3

\* a trim that keeps the oldest COMMAND_LIMIT commands
TrimNewest(queue) ==
  IF Len(queue) > COMMAND_LIMIT THEN SubSeq(queue, 1, COMMAND_LIMIT) ELSE queue

\* if (length > 100) queue = queue.slice(-100)
Trim(queue) ==
  IF Len(queue) > COMMAND_LIMIT
  THEN SubSeq(queue, Len(queue) - COMMAND_LIMIT + 1, Len(queue))
  ELSE queue

\* names that every object inherits as functions
InheritedFunctions == {"constructor"}

\* the array index a property name denotes, or -1
ArrayIndex(key) == IF key = "0" THEN 0 ELSE -1

Value(kind, items) == [kind |-> kind, items |-> items]
Undefined == Value("undefined", <<>>)

\* controlCommands[key]: an own array, the prototype itself for "__proto__",
\* an element of the prototype when that is an array and the key an index
\* inside it, an inherited function, or undefined
ControlLookup(key) ==
  IF key = "__proto__"
  THEN IF controlProto.kind = "array"
       THEN Value("array", controlProto.items) ELSE Value("object", <<>>)
  ELSE IF key \in DOMAIN controlCommands THEN Value("array", controlCommands[key])
  ELSE IF /\ controlProto.kind = "array"
          /\ ArrayIndex(key) >= 0
          /\ ArrayIndex(key) < Len(controlProto.items)
  THEN Value("command", <<controlProto.items[ArrayIndex(key) + 1]>>)
  ELSE IF key \in InheritedFunctions THEN Value("function", <<>>)
  ELSE Undefined

\* controlCommands[key] = queue: for "__proto__" the prototype is replaced
ControlAssign(key, queue) ==
  IF key = "__proto__"
  THEN /\ controlProto' = Value("array", queue)
       /\ UNCHANGED controlCommands
  ELSE /\ controlCommands' = Put(controlCommands, key, queue)
       /\ UNCHANGED controlProto

\* cmds.map((c) => ({ ...c, at: nowSec() })) for n commands
Stamped(n) == [k \in 1 .. n |-> [id |-> commandCount + k, at |-> now]]

IdsOf(queue) == [k \in 1 .. Len(queue) |-> queue[k].id]

CommandsResp(op, userKey, status, queued, commands) ==
  [NoResp EXCEPT !.op = op, !.userKey = userKey, !.status = status, !.clock = now,
                 !.queued = queued, !.commands = commands]

\* 400: no commands array, or an empty one
CommandsPostRejected(userKey) ==
  /\ resp' = CommandsResp("commandsPost", userKey, 400, 0, Undefined)
  /\ UNCHANGED <<configuration, now, storeVars, handlers, ackLog, configVars, controlVars>>

\* POST with n commands.  A truthy value that is no array has no push: the
\* TypeError is answered 500.
CommandsPost(userKey, n) ==
  LET found == ControlLookup(userKey)
      queue == IF found.kind = "undefined" THEN <<>> ELSE found.items
      trimmed == Trim(queue \o Stamped(n))
  IN /\ n > 0
     /\ Len(SelectSeq(mailLog, LAMBDA e : e.op = "post")) < MaxCommandPosts
     /\ IF found.kind \in {"undefined", "array"}
        THEN /\ ControlAssign(userKey, trimmed)
             /\ commandCount' = commandCount + n
             /\ mailLog' = Append(mailLog, [op |-> "post", userKey |-> userKey,
                                            ids |-> IdsOf(Stamped(n))])
             /\ resp' = CommandsResp("commandsPost", userKey, 200, Len(trimmed), Undefined)
        ELSE /\ resp' = CommandsResp("commandsPost", userKey, 500, 0, Undefined)
             /\ UNCHANGED controlVars
     /\ UNCHANGED <<configuration, now, storeVars, handlers, ackLog, configVars>>

\* GET: whatever the lookup finds is returned, then the property is set to []
CommandsGet(userKey) ==
  LET found == ControlLookup(userKey)
      list == IF found.kind = "undefined" THEN Value("array", <<>>) ELSE found
  IN /\ ControlAssign(userKey, <<>>)
     /\ mailLog' = IF list.items = <<>> THEN mailLog
                   ELSE Append(mailLog, [op |-> "get", userKey |-> userKey,
                                         ids |-> IdsOf(list.items)])
     /\ resp' = CommandsResp("commandsGet", userKey, 200, 0, list)
     /\ UNCHANGED <<configuration, now, storeVars, handlers, ackLog, configVars,
                    commandCount>>

MailboxUsersOf(w) ==
  IF w = "mailbox" THEN {"u1", "u2"} ELSE {"__proto__", "0", "constructor"}

BatchesOf(w) == IF w = "mailbox" THEN {40, 70} ELSE {1}

InitControls ==
  /\ tsInput = AbsentPeriod
  /\ tsResult = -1
  /\ USE_DB = FALSE
  /\ workload \in {"mailbox", "inherit"}
  /\ now = 1500
  /\ InitStores

NextControls ==
  \/ \E userKey \in MailboxUsersOf(workload) : CommandsPostRejected(userKey)
  \/ \E userKey \in MailboxUsersOf(workload), n \in BatchesOf(workload) :
       CommandsPost(userKey, n)
  \/ \E userKey \in MailboxUsersOf(workload) : CommandsGet(userKey)

SpecControls == InitControls /\ [][NextControls]_vars

----------------------------------------------------------------------------
(* What the claims speak of *)

\* the samples a request carries: <<metric, t, v>> for every metric of the
\* body with a finite value
ClaimedSamples(h) ==
  (IF IsFiniteNumber(h.body.honey) THEN {<<"honey", h.t, h.body.honey[2]>>} ELSE {})
  \cup (IF IsFiniteNumber(h.body.pollen) THEN {<<"pollen", h.t, h.body.pollen[2]>>} ELSE {})
  \cup (IF IsFiniteNumber(h.body.backpack)
        THEN {<<"backpack", h.t, h.body.backpack[2]>>} ELSE {})
  \cup {<<type, h.t, h.body.nectar[type][2]>> :
          type \in {ty \in NECTAR_TYPES : IsFiniteNumber(h.body.nectar[ty])}}

\* the series of a response that a metric is returned in
SeriesOf(data, metric) ==
  CASE metric = "honey" -> data.honey
    [] metric = "pollen" -> data.pollen
    [] metric = "backpack" -> data.backpack
    [] OTHER -> data.nectar[metric]

HasPoint(series, t, v) == \E i \in 1 .. Len(series) : series[i].t = t /\ series[i].v = v

Returns(data, sample) == HasPoint(SeriesOf(data, sample[1]), sample[2], sample[3])

\* the timestamps of all points of a response
TimesOf(data) ==
  {data.honey[i].t : i \in 1 .. Len(data.honey)}
  \cup {data.pollen[i].t : i \in 1 .. Len(data.pollen)}
  \cup {data.backpack[i].t : i \in 1 .. Len(data.backpack)}
  \cup UNION {{data.nectar[type][i].t : i \in 1 .. Len(data.nectar[type])} :
                type \in NECTAR_TYPES}

Acked == {ackLog[k] : k \in 1 .. Len(ackLog)}

StatsAnswered == resp.op = "stats" /\ resp.status = 200

----------------------------------------------------------------------------
(* C1: toSeconds returns min(n * unitSeconds(u), 2592000) for a period     *)
(* <digits><unit> and 86400 for an absent, empty or other period; it       *)
(* returns a number for every input.                                       *)

unitSeconds(u) ==
  CASE u = "s" -> 1 [] u = "m" -> 60 [] u = "h" -> 3600 [] u = "d" -> 86400

ClaimedDuration(p) ==
  IF p # AbsentPeriod /\ PeriodMatches(p)
  THEN Min(ToNumber(SubSeq(p, 1, Len(p) - 1)) * unitSeconds(p[Len(p)]), 2592000)
  ELSE 86400

C1_ToSeconds == tsResult # -1 => (tsResult \in Nat /\ tsResult = ClaimedDuration(tsInput))

\* "99d" is clamped to 30 days
C1_Witness == tsInput = <<"9", "9", "d">> /\ tsResult = 2592000

----------------------------------------------------------------------------
(* C2 (as claimed): in memory-only mode, after an ingest of (t, metric, v) *)
(* with v finite, every read of that user's series with cutoff <= t        *)
(* returns the pair (t, v) in the metric's series, and no read returns a   *)
(* point older than its cutoff.  Fails for a user key that names an        *)
(* inherited property: the ingest is answered 500 and the read is never    *)
(* answered.                                                               *)

C2_MemoryRoundTrip ==
  (~USE_DB /\ resp.op = "stats") =>
     /\ \A i \in 1 .. Len(handlers) :
          (handlers[i].userKey = resp.userKey /\ handlers[i].mode # "rejected") =>
             \A sample \in ClaimedSamples(handlers[i]) :
                resp.cutoff <= sample[2] => (resp.status = 200 /\ Returns(resp.data, sample))
     /\ \A t \in TimesOf(resp.data) : t >= resp.cutoff

----------------------------------------------------------------------------
(* C3 (as claimed): with the durable backend configured, every sample of   *)
(* an ingest acknowledged with ok:true is returned by every later stats    *)
(* read of the same user whose cutoff is <= the sample's timestamp.        *)
(* Fails: a write served by one backend is not seen by a read served by    *)
(* the other.                                                              *)

C3_RoundTripAcrossBackends ==
  (USE_DB /\ StatsAnswered) =>
     \A i \in Acked :
        handlers[i].userKey = resp.userKey =>
           \A sample \in ClaimedSamples(handlers[i]) :
              resp.cutoff <= sample[2] => Returns(resp.data, sample)

----------------------------------------------------------------------------
(* C4 (as claimed): no read endpoint returns a sample with                 *)
(* t < now - 2592000.  Fails for GET /api/history, which returns the       *)
(* samples of the requested day whatever their age.                        *)

C4_RetentionAllReads ==
  (resp.op \in {"stats", "history"} /\ resp.status = 200) =>
     \A t \in TimesOf(resp.data) : t >= resp.clock - 2592000

(* C4 (amended): no stats read (sendStatsResponse), in memory mode or in   *)
(* durable mode and for any requested period, returns a sample with        *)
(* t < now - 2592000.                                                      *)

C4_RetentionOnStats ==
  StatsAnswered => \A t \in TimesOf(resp.data) : t >= resp.clock - 2592000

\* the timestamps stored for a user in the backend that served a read
StoredTimes(served, userKey) ==
  IF served = "db"
  THEN {dbSamples[i].t : i \in {j \in 1 .. Len(dbSamples) : dbSamples[j].user_key = userKey}}
  ELSE IF userKey \in DOMAIN samples
       THEN {samples[userKey].honey[i].t : i \in 1 .. Len(samples[userKey].honey)}
       ELSE {}

\* a stats read answered while the serving backend holds a sample older than
\* 30 days, with a requested period of 99 days
C4_Witness ==
  /\ StatsAnswered
  /\ \E served \in {"db", "memory"} :
       /\ resp.served = served
       /\ \E t \in StoredTimes(served, resp.userKey) : t < resp.clock - 2592000

----------------------------------------------------------------------------
(* C5 (as claimed): with samples ingested at 100 and 100000, a stats read  *)
(* at server time 100000 + 2592001 returns the second and not the first.   *)
(* Fails: the longest window is 2592000 s, so the cutoff of that read is   *)
(* 100001 and both samples are left out.                                   *)

IngestedAt(userKey, t, modes) ==
  \E i \in Acked : /\ handlers[i].userKey = userKey
                   /\ handlers[i].mode \in modes
                   /\ handlers[i].t = t
                   /\ IsFiniteNumber(handlers[i].body.honey)

AnyMode == {"mysql", "memory", "memory-fallback"}

HoneyAt(t) == \E i \in 1 .. Len(resp.data.honey) : resp.data.honey[i].t = t

ModesOf(served) == IF served = "db" THEN {"mysql"} ELSE {"memory", "memory-fallback"}

----------------------------------------------------------------------------
(* C6 (as claimed): every backpack point of a stats response has           *)
(* pct = clampPercent(v / c * 100), c being the most recent finite         *)
(* positive backpackCapacity the user supplied up to that point, and       *)
(* pct = 0 when there is none.  Fails in durable mode, where a capacity    *)
(* counts only for the points that carry its very timestamp.               *)

\* the requests of the user up to request i that supplied a capacity
SuppliedCapacity(i) ==
  {j \in 1 .. i : /\ handlers[j].userKey = handlers[i].userKey
                  /\ handlers[j].mode # "rejected"
                  /\ IsFiniteNumber(handlers[j].body.backpackCapacity)
                  /\ handlers[j].body.backpackCapacity[2] > 0}

LastOf(S) == CHOOSE j \in S : \A k \in S : k <= j

ClaimedPercent(i) ==
  IF SuppliedCapacity(i) = {} THEN 0
  ELSE clampPercent((handlers[i].body.backpack[2] * 100)
                      \div handlers[LastOf(SuppliedCapacity(i))].body.backpackCapacity[2])

C6_BackpackPercent ==
  StatsAnswered =>
     \A k \in 1 .. Len(resp.data.backpack) :
        \E i \in 1 .. Len(handlers) :
           /\ handlers[i].userKey = resp.userKey
           /\ handlers[i].mode # "rejected"
           /\ IsFiniteNumber(handlers[i].body.backpack)
           /\ handlers[i].t = resp.data.backpack[k].t
           /\ handlers[i].body.backpack[2] = resp.data.backpack[k].v
           /\ resp.data.backpack[k].pct = ClaimedPercent(i)

----------------------------------------------------------------------------
(* C7: an ingest whose body has no honey, pollen, backpack or currentHoney *)
(* number and no nectar value that is a number is answered 400, and the    *)
(* handling of it changes no store and starts no durable call.             *)

ClaimedNoMetric(body) ==
  /\ ~IsNumber(body.honey)
  /\ ~IsNumber(body.pollen)
  /\ ~IsNumber(body.backpack)
  /\ ~IsNumber(body.currentHoney)
  /\ \A type \in NECTAR_TYPES : ~IsNumber(body.nectar[type])

C7_RejectedIngestWritesNothing ==
  [][(resp'.op = "ingest" /\ ClaimedNoMetric(resp'.body)) =>
        /\ resp'.status = 400
        /\ UNCHANGED storeVars
        /\ UNCHANGED ackLog
        /\ handlers'[Len(handlers')].mode = "rejected"]_vars

\* a body that has a backpackCapacity and nothing else is rejected
C7_Witness ==
  /\ resp.op = "ingest"
  /\ resp.status = 400
  /\ IsFiniteNumber(resp.body.backpackCapacity)
  /\ ClaimedNoMetric(resp.body)
  /\ handlers[Len(handlers)].mode = "rejected"

----------------------------------------------------------------------------
(* C8 (as claimed): every ingest that passes validation is answered with   *)
(* ok:true and mode mysql, memory or memory-fallback, a failure of the     *)
(* durable backend included.  Fails for a user key that names an inherited *)
(* property: the memory write throws.                                      *)

C8_IngestAlwaysOk ==
  (resp.op = "ingest" /\ ~NoMetricsProvided(resp.body)) =>
     (resp.status = 200 /\ resp.mode \in {"mysql", "memory", "memory-fallback"})

----------------------------------------------------------------------------
(* C9 (as claimed): the durable write is attempted first and once, the     *)
(* memory write happens only after a raise and once, and the mode is mysql *)
(* exactly when no durable call raised.  Fails: a raise of the session     *)
(* upsert is swallowed and the mode is still mysql.                        *)

CoreRaises == {"ensureUser:raised", "insert:raised", "update:raised"}

AllRaises == CoreRaises \cup {"session:raised"}

Events(tr) == {tr[k] : k \in 1 .. Len(tr)}

\* the order of calls the claim describes
DurableFirstOnce(tr) ==
  /\ USE_DB => (tr # <<>> /\ tr[1] \in {"ensureUser", "ensureUser:raised"})
  /\ ~USE_DB => tr = <<"writeMemory">>
  /\ \A a, b \in 1 .. Len(tr) : tr[a] = tr[b] => a = b
  /\ \A pc \in {"ensureUser", "insert", "update", "session"} :
        ~(pc \in Events(tr) /\ Raised(pc) \in Events(tr))
  /\ \A k \in 1 .. Len(tr) :
        (USE_DB /\ tr[k] = "writeMemory") => (k > 1 /\ tr[k - 1] \in CoreRaises)

IngestHandled == resp.op = "ingest" /\ ~NoMetricsProvided(resp.body)

----------------------------------------------------------------------------
(* C10 (as claimed): a stats read whose durable query raises is answered   *)
(* from the memory store with the same period cutoff.  Fails for a user    *)
(* key that names an inherited property: the memory read throws inside the *)
(* catch and no response is sent.                                          *)

MemoryView(userKey, cutoff) ==
  IF userKey \in DOMAIN samples
  THEN [honey |-> SelectFrom(samples[userKey].honey, cutoff),
        pollen |-> SelectFrom(samples[userKey].pollen, cutoff)]
  ELSE [honey |-> <<>>, pollen |-> <<>>]

C10_StatsFallback ==
  (resp.op = "stats" /\ resp.raised) =>
     /\ resp.status = 200
     /\ resp.served = "memory"
     /\ resp.data.honey = MemoryView(resp.userKey, resp.cutoff).honey
     /\ resp.data.pollen = MemoryView(resp.userKey, resp.cutoff).pollen

----------------------------------------------------------------------------
(* C11: append is not idempotent.  A stats read returns a pair (t, v) of a *)
(* metric at least as many times as ingests carrying it were acknowledged  *)
(* by the backend that serves the read; equal timestamps are never merged. *)

Occurrences(series, t, v) ==
  Cardinality({k \in 1 .. Len(series) : series[k].t = t /\ series[k].v = v})

\* the acknowledged ingests of the user, written to the backend `served`,
\* that carry the sample
AckedWith(userKey, served, sample) ==
  {i \in Acked : /\ handlers[i].userKey = userKey
                 /\ handlers[i].mode \in ModesOf(served)
                 /\ sample \in ClaimedSamples(handlers[i])}

SamplesOf(userKey) ==
  UNION {ClaimedSamples(handlers[i]) :
           i \in {j \in 1 .. Len(handlers) : handlers[j].userKey = userKey}}

C11_AppendNotIdempotent ==
  StatsAnswered =>
     \A sample \in SamplesOf(resp.userKey) :
        resp.cutoff <= sample[2] =>
           Occurrences(SeriesOf(resp.data, sample[1]), sample[2], sample[3])
             >= Cardinality(AckedWith(resp.userKey, resp.served, sample))

\* the same sample ingested twice and returned twice
C11_Witness ==
  /\ StatsAnswered
  /\ \E sample \in SamplesOf(resp.userKey) :
       /\ Cardinality(AckedWith(resp.userKey, resp.served, sample)) = 2
       /\ Occurrences(SeriesOf(resp.data, sample[1]), sample[2], sample[3]) = 2

----------------------------------------------------------------------------
(* C12 (as claimed): every series of a stats response is in ascending      *)
(* order of timestamp, whatever the order the timestamps arrived in.       *)
(* Fails in the memory path, which returns the points in arrival order.    *)

Ascending(series) ==
  \A k \in 1 .. Len(series) - 1 : series[k].t <= series[k + 1].t

C12_AscendingSeries ==
  StatsAnswered =>
     /\ Ascending(resp.data.honey)
     /\ Ascending(resp.data.pollen)
     /\ Ascending(resp.data.backpack)
     /\ \A type \in NECTAR_TYPES : Ascending(resp.data.nectar[type])

----------------------------------------------------------------------------
(* C13 (as claimed): right after an ingest that is applied to the memory   *)
(* store, every series of the user's bucket holds only points with         *)
(* t >= now - 2592000.  Fails in the history / leaderboard variant, whose  *)
(* writeMemory never prunes.                                               *)

SeriesTimes(series) == {series[k].t : k \in 1 .. Len(series)}

BucketTimes(bucket) ==
  SeriesTimes(bucket.honey) \cup SeriesTimes(bucket.pollen)
  \cup (IF "backpack" \in DOMAIN bucket THEN SeriesTimes(bucket.backpack) ELSE {})
  \cup (IF "nectar" \in DOMAIN bucket
        THEN UNION {SeriesTimes(bucket.nectar[type]) : type \in NECTAR_TYPES} ELSE {})

C13_PruneOnWrite ==
  (/\ resp.op = "ingest"
   /\ resp.status = 200
   /\ resp.mode \in {"memory", "memory-fallback"}
   /\ resp.userKey \in DOMAIN samples)
  => \A t \in BucketTimes(samples[resp.userKey]) : t >= resp.clock - 2592000

----------------------------------------------------------------------------
(* C20: GET /api/history for a valid date answers with the honey samples   *)
(* of the caller stored with dayStart <= t < dayStart + 86400, each once   *)
(* and in ascending order of t, and total_honey is the sum of their        *)
(* values; other metrics, other days and other users do not count.         *)

\* the stored honey rows of the user within the day that starts at startT
HoneyRowsOfDay(userKey, startT) ==
  {k \in 1 .. Len(dbSamples) : /\ dbSamples[k].user_key = userKey
                               /\ dbSamples[k].metric = "honey"
                               /\ startT <= dbSamples[k].t
                               /\ dbSamples[k].t < startT + 86400}

RECURSIVE SumOfRows(_)
SumOfRows(K) ==
  IF K = {} THEN 0
  ELSE LET k == CHOOSE x \in K : TRUE IN dbSamples[k].v + SumOfRows(K \ {k})

C20_HistoryTotal ==
  (resp.op = "history" /\ resp.status = 200) =>
     LET K == HoneyRowsOfDay(resp.userKey, resp.cutoff)
     IN /\ resp.total = SumOfRows(K)
        /\ Len(resp.data.honey) = Cardinality(K)
        /\ \A k \in K :
             Occurrences(resp.data.honey, dbSamples[k].t, dbSamples[k].v)
               = Cardinality({j \in K : /\ dbSamples[j].t = dbSamples[k].t
                                        /\ dbSamples[j].v = dbSamples[k].v})
        /\ Ascending(resp.data.honey)

\* two honey samples of 5 and 7 within the day: total 12
C20_Witness ==
  /\ resp.op = "history"
  /\ resp.status = 200
  /\ resp.total = 12
  /\ Len(resp.data.honey) = 2

----------------------------------------------------------------------------
(* C14 (as claimed): a GET /api/configs/k issued after a POST to k was     *)
(* acknowledged returns the payload of the most recently acknowledged POST *)
(* to k, whatever the durable calls did, and a GET for a key never written *)
(* returns 404.  Fails: a POST acknowledged as memory-fallback is hidden   *)
(* by the older row of the table, and a key that names an inherited        *)
(* property is answered 200.                                               *)

PostsTo(key) ==
  {i \in 1 .. Len(configRequests) :
     configRequests[i].kind = "post" /\ configRequests[i].key = key}

\* where in the order of acknowledgements request i stands (0: not yet)
AckPosition(i) ==
  IF \E k \in 1 .. Len(configAcks) : configAcks[k] = i
  THEN CHOOSE k \in 1 .. Len(configAcks) : configAcks[k] = i
  ELSE 0

LastAckedPost(key) ==
  CHOOSE i \in PostsTo(key) : \A j \in PostsTo(key) : AckPosition(j) <= AckPosition(i)

\* every POST to the key was acknowledged before the GET arrived
SettledBefore(key, seen) ==
  \A i \in PostsTo(key) : AckPosition(i) > 0 /\ AckPosition(i) <= seen

C14_ConfigReadYourWrite ==
  resp.op = "configGet" =>
     /\ PostsTo(resp.key) = {} => resp.status = 404
     /\ (PostsTo(resp.key) # {} /\ SettledBefore(resp.key, resp.seen)) =>
          /\ resp.status = 200
          /\ resp.config = configRequests[LastAckedPost(resp.key)].config

----------------------------------------------------------------------------
(* C15 (as claimed): GET /api/players returns no entry whose last-seen is  *)
(* more than 120 seconds away from the server's time, and lists every      *)
(* session that an acknowledged ingest recorded with a last-seen inside    *)
(* that window, in memory mode and in durable mode.  Fails: a last-seen in *)
(* the future is listed however far away it is, and with the database the  *)
(* session of an ingest acknowledged as memory-fallback is not listed.     *)

Distance(a, b) == IF a >= b THEN a - b ELSE b - a

\* the ingests that carry the session <<user key, player id>>
IngestsOfSession(k) ==
  {i \in 1 .. Len(handlers) :
     /\ handlers[i].userKey = k[1]
     /\ normalizePlayerId(handlers[i].body.playerId) = k[2]}

SessionsIngested ==
  {<<handlers[i].userKey, normalizePlayerId(handlers[i].body.playerId)>> :
     i \in {j \in 1 .. Len(handlers) : normalizePlayerId(handlers[j].body.playerId) > 0}}

\* an ingest of the session was acknowledged, and every ingest of it carries
\* a last-seen inside the window
RecordedInsideWindow(k, clock) ==
  /\ \E i \in IngestsOfSession(k) : i \in Acked
  /\ \A i \in IngestsOfSession(k) : Distance(clock, handlers[i].t) <= ONLINE_TIMEOUT

Lists(id) == \E n \in 1 .. Len(resp.rows) : resp.rows[n].id = id

RosterAnswered == resp.op = "players" /\ resp.status = 200 /\ ~resp.raised

C15_RosterWindow ==
  RosterAnswered =>
     /\ \A n \in 1 .. Len(resp.rows) :
          Distance(resp.clock, resp.rows[n].lastSeen) <= ONLINE_TIMEOUT
     /\ \A k \in SessionsIngested :
          RecordedInsideWindow(k, resp.clock) => Lists(getSessionPublicId(k[1], k[2]))

----------------------------------------------------------------------------
(* C16 (as claimed): after an acknowledged ingest for user key k the       *)
(* public id of k resolves to k, the public id of the session <<k, p>>     *)
(* resolves to k when the ingest carried a positive player id p, and the   *)
(* cache maps no public id to a user key it was not derived from.  Fails:  *)
(* when the upsert of recordDbSession raises, the ingest is acknowledged   *)
(* but the session's public id is neither cached nor stored.               *)

\* GET /api/player/:publicId/stats was answered (the resolver did not raise)
ResolverAnswered == resp.op = "playerStats" /\ resp.status # 0

AckedFor(userKey) == {i \in Acked : handlers[i].userKey = userKey}

AckedForSession(userKey, playerId) ==
  {i \in AckedFor(userKey) : normalizePlayerId(handlers[i].body.playerId) = playerId}

ResolvesTo(userKey) == resp.status = 200 /\ resp.resolved = userKey

CacheIsDerived ==
  \A id \in DOMAIN publicIdToUserKey : id[2] = publicIdToUserKey[id].userKey

C16_ResolveAfterWrite ==
  /\ CacheIsDerived
  /\ ResolverAnswered =>
       \A userKey \in UsersOf(workload) :
          /\ (resp.key = getPublicId(userKey) /\ AckedFor(userKey) # {})
               => ResolvesTo(userKey)
          /\ \A playerId \in RosterPlayerIds :
               (/\ resp.key = getSessionPublicId(userKey, playerId)
                /\ AckedForSession(userKey, playerId) # {})
               => ResolvesTo(userKey)

----------------------------------------------------------------------------
(* C17 (as claimed): no answer of a read endpoint (the roster, the         *)
(* statistics of a player, a config read, the leaderboard, the statistics) *)
(* holds a user key other than the one its caller supplied.  Fails: every  *)
(* row of the leaderboard carries the user key of the user it ranks, and a *)
(* config read returns the user key of the config's owner.                 *)

ReadEndpoints == {"players", "playerStats", "configGet", "leaderboard", "stats"}

\* the user keys written into the answer
DisclosedKeys ==
  {resp.rows[n].user_key :
     n \in {m \in 1 .. Len(resp.rows) : "user_key" \in DOMAIN resp.rows[m]}}
    \cup (IF resp.op = "configGet" /\ resp.owner # "" THEN {resp.owner} ELSE {})

\* the user key the caller sent in x-user-key ("" when the endpoint takes none)
CallerKey == IF resp.op \in {"leaderboard", "stats"} THEN resp.userKey ELSE ""

C17_NoForeignUserKey ==
  (resp.op \in ReadEndpoints /\ resp.status = 200) => DisclosedKeys \subseteq {CallerKey}

----------------------------------------------------------------------------
(* C18: a user's command queue never holds more than 100 commands; it is   *)
(* always the last 100 of the commands posted for that user key since the  *)
(* queue was last drained, in the order they arrived; and the `queued`     *)
(* count of a POST's answer is the length of the queue after trimming.     *)

RECURSIVE ArrivedIn(_, _)
\* the ids posted for the user key since its last drain, oldest first
ArrivedIn(log, userKey) ==
  IF log = <<>> THEN <<>>
  ELSE LET e == log[Len(log)]
           before == SubSeq(log, 1, Len(log) - 1)
       IN IF e.userKey # userKey THEN ArrivedIn(before, userKey)
          ELSE IF e.op = "get" THEN <<>>
          ELSE ArrivedIn(before, userKey) \o e.ids

Arrived(userKey) == ArrivedIn(mailLog, userKey)

LastN(seq, n) ==
  LET m == IF Len(seq) < n THEN Len(seq) ELSE n
  IN [k \in 1 .. m |-> seq[Len(seq) - m + k]]

\* the queue a POST for the user key appends to
QueueOf(userKey) ==
  IF ControlLookup(userKey).kind = "array" THEN ControlLookup(userKey).items ELSE <<>>

C18_MailboxBound ==
  /\ \A userKey \in MailboxUsersOf(workload) :
        /\ Len(QueueOf(userKey)) <= COMMAND_LIMIT
        /\ IdsOf(QueueOf(userKey)) = LastN(Arrived(userKey), COMMAND_LIMIT)
  /\ (resp.op = "commandsPost" /\ resp.status = 200)
        => resp.queued = Len(QueueOf(resp.userKey))

\* a POST has pushed the queue over 100 and it was cut back to 100
C18_Witness ==
  /\ resp.op = "commandsPost"
  /\ resp.status = 200
  /\ Len(Arrived(resp.userKey)) > COMMAND_LIMIT
  /\ resp.queued = COMMAND_LIMIT
  /\ QueueOf(resp.userKey)[1].id > 1

----------------------------------------------------------------------------
(* C19 (as claimed): a GET /api/controls/commands returns the commands     *)
(* queued for its caller's user key, in order, and leaves that queue       *)
(* empty, so every command is returned by at most one GET and never to a   *)
(* user key other than the one it was posted for.  Fails: once the user    *)
(* key __proto__ has drained its mailbox the object's prototype is an      *)
(* array, and a GET for the user key 0 returns the first command queued    *)
(* for __proto__, which a later GET for __proto__ returns again.           *)

MailEvents(op) == {e \in 1 .. Len(mailLog) : mailLog[e].op = op}

Holds(e, id) == \E k \in 1 .. Len(mailLog[e].ids) : mailLog[e].ids[k] = id

\* the user key a command was posted for
PostedFor(id) == mailLog[CHOOSE e \in MailEvents("post") : Holds(e, id)].userKey

C19_MailboxDrain ==
  /\ resp.op = "commandsGet" => QueueOf(resp.userKey) = <<>>
  /\ \A e \in MailEvents("get") :
        /\ mailLog[e].ids = LastN(ArrivedIn(SubSeq(mailLog, 1, e - 1), mailLog[e].userKey),
                                  COMMAND_LIMIT)
        /\ \A k \in 1 .. Len(mailLog[e].ids) :
              /\ PostedFor(mailLog[e].ids[k]) = mailLog[e].userKey
              /\ \A f \in MailEvents("get") : Holds(f, mailLog[e].ids[k]) => f = e

----------------------------------------------------------------------------
(* C21: GET /api/history and GET /api/leaderboard answer 501 when no       *)
(* database is configured and 500 when a query raises; such an answer      *)
(* carries no data, no answer of theirs is served from the in-memory       *)
(* store, and neither handler changes the in-memory store.                 *)

BackendRequired == {"history", "leaderboard"}

EmptyAnswer == resp.data = NoData /\ resp.rows = <<>> /\ resp.total = 0

memoryStore == <<samples, inherited, publicIdToUserKey, memorySessions>>

C21_BackendRequired ==
  /\ [](resp.op \in BackendRequired =>
          /\ resp.served # "memory"
          /\ ~USE_DB => (resp.status = 501 /\ EmptyAnswer)
          /\ resp.raised => (resp.status = 500 /\ EmptyAnswer)
          /\ (USE_DB /\ ~resp.raised) => resp.status = 200)
  /\ [][resp'.op \in BackendRequired => UNCHANGED memoryStore]_vars

\* a query raised while the in-memory store held samples of the caller
C21_Witness ==
  /\ resp.op \in BackendRequired
  /\ resp.status = 500
  /\ resp.userKey \in DOMAIN samples
  /\ samples[resp.userKey].honey # <<>>

----------------------------------------------------------------------------
(* C22 (as claimed): whatever the limit parameter is (absent, zero,        *)
(* negative, not a number, above 100), the row limit handed to the query   *)
(* of GET /api/leaderboard is an integer from 1 to 100.  Fails: a negative *)
(* limit is handed on as it is.                                            *)

LeaderboardQueried == resp.op = "leaderboard" /\ resp.status \in {200, 500}

C22_LeaderboardLimit ==
  LeaderboardQueried => (resp.limit >= 1 /\ resp.limit <= MAX_LIMIT)

----------------------------------------------------------------------------
(* C23 (as claimed): the list GET /api/leaderboard returns holds only      *)
(* users whose last activity is within the last 7 days and is ordered by   *)
(* total_honey, descending.  Fails: the handler sorts the list once more   *)
(* by the honey of the last 24 hours before it answers.                    *)

LeaderboardAnswered == resp.op = "leaderboard" /\ resp.status = 200

OnlyActiveUsers ==
  \A n \in 1 .. Len(resp.rows) : resp.rows[n].last_activity > resp.clock - ACTIVE_WINDOW

ByTotalHoney ==
  \A n \in 1 .. Len(resp.rows) - 1 :
     resp.rows[n].total_honey >= resp.rows[n + 1].total_honey

ByDailyHoney ==
  \A n \in 1 .. Len(resp.rows) - 1 :
     resp.rows[n].daily_honey >= resp.rows[n + 1].daily_honey

ActiveUsers ==
  {u \in DOMAIN dbUsers : dbUsers[u].last_activity > resp.clock - ACTIVE_WINDOW}

Ranked == {resp.rows[n].user_key : n \in 1 .. Len(resp.rows)}

TopByTotalHoney ==
  /\ Ranked \subseteq ActiveUsers
  /\ Cardinality(Ranked) = Len(resp.rows)
  /\ Len(resp.rows) = IF Cardinality(ActiveUsers) < resp.limit
                      THEN Cardinality(ActiveUsers) ELSE resp.limit
  /\ \A u \in Ranked, w \in ActiveUsers \ Ranked :
        dbUsers[u].total_honey >= dbUsers[w].total_honey
  /\ \A n \in 1 .. Len(resp.rows) :
        /\ resp.rows[n].total_honey = dbUsers[resp.rows[n].user_key].total_honey
        /\ resp.rows[n].daily_honey =
             SumOfRows({k \in 1 .. Len(dbSamples) :
                          /\ dbSamples[k].user_key = resp.rows[n].user_key
                          /\ dbSamples[k].metric = "honey"
                          /\ dbSamples[k].t >= resp.clock - DAY})

IngestAnswered(i) ==
  /\ Len(handlers) >= i
  /\ handlers[i].pc = "done"
  /\ handlers[i].mode \in {"rejected", "memory", "mysql", "memory-fallback"}

EveryIngestAnswered ==
  \A i \in 1 .. MaxIngests : (Len(handlers) >= i) ~> IngestAnswered(i)

EveryHandlerResponds == [](resp.op # "none" => resp.status # 0)

C24_EveryRequestAnswered == EveryIngestAnswered /\ EveryHandlerResponds

----------------------------------------------------------------------------
(* C25 (as claimed): an ingest for an ordinary user key whose body carries *)
(* a number in honey, pollen, backpack, backpackCapacity, currentHoney or  *)
(* a nectar type is answered 200 ok, and each finite honey, pollen,        *)
(* backpack and nectar value of it is recorded in the backend that served  *)
(* it (in memory: unless older than the retention window).  Fails: a body  *)
(* whose only number is backpackCapacity is answered 400.                  *)

CarriesMetric(body) ==
  \/ IsNumber(body.honey)
  \/ IsNumber(body.pollen)
  \/ IsNumber(body.backpack)
  \/ IsNumber(body.backpackCapacity)
  \/ IsNumber(body.currentHoney)
  \/ \E type \in NECTAR_TYPES : IsNumber(body.nectar[type])

RowMetric(metric) ==
  IF metric \in NECTAR_TYPES THEN nectarMetricForType(metric) ELSE metric

InDurable(userKey, sample) ==
  \E k \in 1 .. Len(dbSamples) :
     dbSamples[k] = [user_key |-> userKey, metric |-> RowMetric(sample[1]),
                     t |-> sample[2], v |-> sample[3]]

InMemory(userKey, sample) ==
  /\ userKey \in DOMAIN samples
  /\ HasPoint(SeriesOf(samples[userKey], sample[1]), sample[2], sample[3])

RecordedWhereServed ==
  \A sample \in ClaimedSamples([body |-> resp.body, t |-> resp.t]) :
     IF resp.mode = "mysql" THEN InDurable(resp.userKey, sample)
     ELSE sample[2] >= resp.clock - 30 * DAY => InMemory(resp.userKey, sample)

IngestAccepted == resp.status = 200 /\ RecordedWhereServed

CarriesCountedMetric(body) ==
  \/ IsNumber(body.honey)
  \/ IsNumber(body.pollen)
  \/ IsNumber(body.backpack)
  \/ IsNumber(body.currentHoney)
  \/ \E type \in NECTAR_TYPES : IsFiniteNumber(body.nectar[type])

----------------------------------------------------------------------------
(* C26 (as claimed): the length caps are limits of the response only.  No  *)
(* ingest, read or tick removes a stored buff point that is inside the     *)
(* 30-day retention window, however many points the series holds.  Fails:  *)
(* writeMemory of the tokens-and-buffs variant cuts the stored series to   *)
(* its last 400 points.                                                    *)

PointsOfSeries(series) == {series[k] : k \in 1 .. Len(series)}

KeptInStore(userKey, name) ==
  \A p \in PointsOfSeries(samples[userKey].buffs[name]) :
     p.t >= now' - 30 * DAY =>
        /\ userKey \in DOMAIN samples'
        /\ name \in DOMAIN samples'[userKey].buffs
        /\ Occurrences(samples'[userKey].buffs[name], p.t, p.v)
             >= Occurrences(samples[userKey].buffs[name], p.t, p.v)

C26_CapsArePresentationOnly ==
  [][\A userKey \in DOMAIN samples :
       \A name \in DOMAIN samples[userKey].buffs : KeptInStore(userKey, name)]_vars

----------------------------------------------------------------------------
(* C27 (as claimed): a stats read for an ordinary user key reports the     *)
(* currentHoney of the last acknowledged ingest of that user that carried  *)
(* a numeric currentHoney (0 if none did), and the last-activity timestamp *)
(* kept by the backend that served the read is the timestamp of the last   *)
(* acknowledged ingest of the user.  Fails: an ingest that fell back to    *)
(* memory leaves the durable scalars as they were.                         *)

AckedPositions(userKey) ==
  {k \in 1 .. Len(ackLog) : handlers[ackLog[k]].userKey = userKey}

CarryingCurrentHoney(userKey) ==
  {k \in AckedPositions(userKey) : IsNumber(handlers[ackLog[k]].body.currentHoney)}

LastIngest(K) == handlers[ackLog[CHOOSE k \in K : \A j \in K : j <= k]]

LastKnownHoney(userKey) ==
  IF CarryingCurrentHoney(userKey) = {} THEN 0
  ELSE LastIngest(CarryingCurrentHoney(userKey)).body.currentHoney[2]

LastActivity(served, userKey) ==
  IF served = "db"
  THEN IF userKey \in DOMAIN dbUsers THEN dbUsers[userKey].last_activity ELSE 0
  ELSE IF userKey \in DOMAIN samples THEN samples[userKey].lastSeen ELSE 0

ScalarsAreLastKnown ==
  /\ resp.data.currentHoney = LastKnownHoney(resp.userKey)
  /\ AckedPositions(resp.userKey) # {} =>
        LastActivity(resp.served, resp.userKey) = LastIngest(AckedPositions(resp.userKey)).t

C27_LastKnownCurrentHoney ==
  (StatsAnswered /\ resp.userKey \in NormalKeys) => ScalarsAreLastKnown

----------------------------------------------------------------------------
(* C28 (as claimed): once no ingest is in flight, each sample of the       *)
(* acknowledged ingests of an ordinary user key is stored exactly once for *)
(* each ingest that carried it: in the durable rows for the ingests        *)
(* answered mysql, in the memory bucket (when inside the retention window) *)
(* for those answered memory or memory-fallback, and nowhere else.  Fails: *)
(* when the UPDATE of users raises after the INSERT returned, the rows     *)
(* stay in the durable store and the catch block writes the sample to      *)
(* memory as well.                                                         *)

NoIngestInFlight == \A i \in 1 .. Len(handlers) : handlers[i].pc = "done"

DurableCount(userKey, sample) ==
  Cardinality({k \in 1 .. Len(dbSamples) :
                 dbSamples[k] = [user_key |-> userKey, metric |-> RowMetric(sample[1]),
                                 t |-> sample[2], v |-> sample[3]]})

MemoryCount(userKey, sample) ==
  IF userKey \in DOMAIN samples
  THEN Occurrences(SeriesOf(samples[userKey], sample[1]), sample[2], sample[3])
  ELSE 0

PlacedOnce(userKey, sample) ==
  /\ DurableCount(userKey, sample) = Cardinality(AckedWith(userKey, "db", sample))
  /\ sample[2] >= now - 30 * DAY =>
        MemoryCount(userKey, sample) = Cardinality(AckedWith(userKey, "memory", sample))

C28_SinglePlacement ==
  NoIngestInFlight =>
     \A userKey \in NormalKeys : \A sample \in SamplesOf(userKey) :
        PlacedOnce(userKey, sample)

----------------------------------------------------------------------------
(* C29: user isolation, for ordinary user keys.  A step taken for one user *)
(* key leaves the bucket, the sessions, the durable rows and scalars and   *)
(* the public-id mappings of every other user key as they were; a stored   *)
(* point is never changed (a series only loses pruned points and gains the *)
(* samples of the ingest being handled, the durable rows only grow); and a *)
(* stats read of a user returns only samples ingested under that user.    *)

\* the user keys the step is taken for
Actors ==
  {handlers'[i].userKey :
     i \in {j \in 1 .. Len(handlers') : j > Len(handlers) \/ handlers'[j] # handlers[j]}}
  \cup (IF resp'.op # "none" THEN {resp'.userKey} ELSE {})

Restrict(f, K) == [k \in K |-> f[k]]

OwnedBy(userKey) ==
  [bucket |-> IF userKey \in DOMAIN samples THEN <<samples[userKey]>> ELSE <<>>,
   sessions |-> Restrict(memorySessions, {k \in DOMAIN memorySessions : k[1] = userKey}),
   user |-> IF userKey \in DOMAIN dbUsers THEN <<dbUsers[userKey]>> ELSE <<>>,
   rows |-> SelectSeq(dbSamples, LAMBDA r : r.user_key = userKey),
   dbSessions |-> Restrict(dbSessions, {k \in DOMAIN dbSessions : k[1] = userKey}),
   ids |-> Restrict(publicIdToUserKey,
                    {id \in DOMAIN publicIdToUserKey :
                       publicIdToUserKey[id].userKey = userKey})]

OthersUntouched ==
  \A userKey \in NormalKeys : userKey \notin Actors => OwnedBy(userKey)' = OwnedBy(userKey)

PointsImmutable ==
  /\ Len(dbSamples') >= Len(dbSamples)
  /\ SubSeq(dbSamples', 1, Len(dbSamples)) = dbSamples
  /\ \A userKey \in NormalKeys \cap DOMAIN samples' :
        \A metric \in {"honey", "pollen", "backpack"} \cup NECTAR_TYPES :
           \A k \in 1 .. Len(SeriesOf(samples'[userKey], metric)) :
              LET p == SeriesOf(samples'[userKey], metric)[k]
              IN \/ /\ userKey \in DOMAIN samples
                    /\ \E j \in 1 .. Len(SeriesOf(samples[userKey], metric)) :
                         SeriesOf(samples[userKey], metric)[j] = p
                 \/ \E i \in 1 .. Len(handlers') :
                      /\ handlers'[i].userKey = userKey
                      /\ <<metric, p.t, p.v>> \in ClaimedSamples(handlers'[i])
                      /\ (i > Len(handlers) \/ handlers'[i] # handlers[i])

OnlyOwnSamples ==
  (StatsAnswered /\ resp.userKey \in NormalKeys) =>
     \A metric \in {"honey", "pollen", "backpack"} \cup NECTAR_TYPES :
        \A k \in 1 .. Len(SeriesOf(resp.data, metric)) :
           <<metric, SeriesOf(resp.data, metric)[k].t, SeriesOf(resp.data, metric)[k].v>>
             \in SamplesOf(resp.userKey)

C29_UserIsolation ==
  /\ [][OthersUntouched /\ PointsImmutable]_vars
  /\ []OnlyOwnSamples

\* both users have an acknowledged sample, one in each backend or both in
\* one, and the read of u2 returns u2's sample
C29_Witness ==
  /\ StatsAnswered
  /\ resp.userKey = "u2"
  /\ Len(resp.data.honey) = 1
  /\ \E i \in Acked : handlers[i].userKey = "u1" /\ ClaimedSamples(handlers[i]) # {}
  /\ \E i \in Acked : handlers[i].userKey = "u2" /\ ClaimedSamples(handlers[i]) # {}

----------------------------------------------------------------------------
(* C30: no lost append under interleaving, for ordinary user keys.  The    *)
(* memory write of an ingest is one step: the step that answers memory or  *)
(* memory-fallback adds each sample of that ingest that is inside the      *)
(* retention window to the bucket once and keeps every other point inside  *)
(* the window, whatever steps of other handlers came before it.  And once  *)
(* every ingest is acknowledged, each sample inside the window is stored,  *)
(* in the durable rows or in the bucket, once for each ingest that         *)
(* carried it.                                                             *)

\* the ingests the step answers from memory
WrittenToMemory ==
  {i \in 1 .. Len(handlers') :
     /\ handlers'[i].mode \in {"memory", "memory-fallback"}
     /\ (i > Len(handlers) \/ handlers[i].pc # "done")}

MemoryCountAfter(userKey, sample) ==
  IF userKey \in DOMAIN samples'
  THEN Occurrences(SeriesOf(samples'[userKey], sample[1]), sample[2], sample[3])
  ELSE 0

AppendAndPruneAtomic ==
  \A userKey \in NormalKeys : \A sample \in SamplesOf(userKey)' :
     sample[2] >= now' - 30 * DAY =>
        MemoryCountAfter(userKey, sample) =
           MemoryCount(userKey, sample)
             + Cardinality({i \in WrittenToMemory :
                              /\ handlers'[i].userKey = userKey
                              /\ sample \in ClaimedSamples(handlers'[i])})

EveryIngestAcked ==
  /\ handlers # <<>>
  /\ \A i \in 1 .. Len(handlers) : handlers[i].pc = "done" /\ i \in Acked

Carrying(userKey, sample) ==
  {i \in Acked : handlers[i].userKey = userKey /\ sample \in ClaimedSamples(handlers[i])}

NothingLost ==
  EveryIngestAcked =>
     \A userKey \in NormalKeys : \A sample \in SamplesOf(userKey) :
        sample[2] >= now - 30 * DAY =>
           DurableCount(userKey, sample) + MemoryCount(userKey, sample)
             >= Cardinality(Carrying(userKey, sample))

C30_NoLostAppend == [][AppendAndPruneAtomic]_vars /\ []NothingLost

\* two ingests of one user in flight together, the second acknowledged
\* first, both written to memory after a raise and both samples kept
C30_Witness ==
  /\ EveryIngestAcked
  /\ ackLog = <<2, 1>>
  /\ handlers[1].userKey = handlers[2].userKey
  /\ handlers[1].mode = "memory-fallback"
  /\ handlers[2].mode = "memory-fallback"
  /\ \E sample \in ClaimedSamples(handlers[1]) :
       /\ sample \in ClaimedSamples(handlers[2])
       /\ MemoryCount(handlers[1].userKey, sample) = 2

====
